---- MODULE Spec2Model ----
(***************************************************************************)
(* The object register and object factory of objectregister.hpp.           *)
(*                                                                         *)
(* A std::string is a sequence of one-character strings, so that key       *)
(* construction, std::map ordering, tokenizing and parsing are computed    *)
(* rather than assumed.  A std::map is a function whose DOMAIN is the set  *)
(* of keys present.  Objects live in `objects` (handle = index, 0 = null   *)
(* shared_ptr); their member variables live in `mem`, addressed by         *)
(* <<object, member>>.  A raw pointer is such an address.  Class, member   *)
(* and instance names are shortened to one letter (Storage "S", Channel    *)
(* "C", EOL "E", SpillOutlet "O", Sources "R", Capacity "K").              *)
(***************************************************************************)
EXTENDS Integers, Sequences, FiniteSets, TLC

\* ------------------------------------------------------------------ bounds

\* objects constructed in one run (new T(aName))
MaxObjects == 2

\* ----------------------------------------------------------------- strings

AsciiCode ==
    (" " :> 32) @@ ("," :> 44) @@ ("." :> 46) @@ ("0" :> 48) @@ ("1" :> 49) @@
    ("2" :> 50) @@ ("5" :> 53) @@ ("A" :> 65) @@ ("C" :> 67) @@ ("E" :> 69) @@
    ("F" :> 70) @@ ("K" :> 75) @@ ("N" :> 78) @@ ("O" :> 79) @@ ("R" :> 82) @@
    ("S" :> 83) @@ ("T" :> 84) @@ ("W" :> 87) @@ ("Y" :> 89) @@ ("Z" :> 90) @@
    ("[" :> 91) @@ ("]" :> 93) @@ ("a" :> 97) @@ ("b" :> 98) @@ ("d" :> 100) @@
    ("e" :> 101) @@ ("f" :> 102) @@ ("n" :> 110) @@ ("o" :> 111) @@
    ("r" :> 114) @@ ("s" :> 115) @@ ("t" :> 116) @@ ("x" :> 120) @@ ("y" :> 121)

\* std::string operator< : lexicographic on character codes
RECURSIVE StrLess(_, _)
StrLess(a, b) ==
    IF b = <<>> THEN FALSE
    ELSE IF a = <<>> THEN TRUE
    ELSE IF a[1] = b[1] THEN StrLess(Tail(a), Tail(b))
    ELSE AsciiCode[a[1]] < AsciiCode[b[1]]

\* the keys in descending order
RECURSIVE KeysDescending(_)
KeysDescending(S) ==
    IF S = {} THEN <<>>
    ELSE LET m == CHOOSE k \in S : \A o \in S \ {k} : StrLess(o, k)
         IN  <<m>> \o KeysDescending(S \ {m})

\* the keys of a std::map<string, ...> in iteration order (ascending)
RECURSIVE KeysInOrder(_)
KeysInOrder(S) ==
    IF S = {} THEN <<>>
    ELSE LET m == CHOOSE k \in S : \A o \in S \ {k} : StrLess(k, o)
         IN  <<m>> \o KeysInOrder(S \ {m})

\* m[k] = v on a std::map (insert or overwrite)
Put(m, k, v) == [x \in DOMAIN m \cup {k} |-> IF x = k THEN v ELSE m[x]]

EmptyMap == <<>>

\* ------------------------------------------------------- register strings

gRegStringSeps == <<".">>
gRegStringFunction == <<"f", "u", "n", "c", "t", "i", "o", "n">>
gRegStringCollection == <<"c", "o", "l", "l", "e", "c", "t", "i", "o", "n">>
gRegStringFile == <<"f", "i", "l", "e">>

\* a RegisterString that leaves out the separators
RegisterString_NoSeps(aFirst, aSecond, aThird) == aFirst \o aSecond \o aThird

RegisterString(aFirst, aSecond, aThird) ==
    IF aSecond # <<>>
    THEN IF aThird # <<>>
         THEN aFirst \o gRegStringSeps \o aSecond \o gRegStringSeps \o aThird
         ELSE aFirst \o gRegStringSeps \o aSecond
    ELSE aFirst

FunctionRegisterString(aFunctionName) ==
    RegisterString(gRegStringFunction, aFunctionName, <<>>)

FileRegisterString(aFileName) == RegisterString(gRegStringFile, aFileName, <<>>)

CollectionRegisterString(aCollectionName) ==
    RegisterString(gRegStringCollection, aCollectionName, <<>>)

\* ------------------------------------------------------------ the classes

\* T::class_name of the two registrable C++ types of the usage example
class_name == [T \in {"Storage", "Channel"} |->
                 IF T = "Storage" THEN <<"S">> ELSE <<"C">>]

Types == DOMAIN class_name

\* typeid(x).name() of the value types stored in the register
TagHandle(T) == IF T = "Storage" THEN "SP<Storage>" ELSE "SP<Channel>"
TagDoubleP == "P<double>"
TagRefP == "P<SP<Channel>>"
TagVecP == "P<vector<SP<Storage>>>"
TagBoolP == "P<bool>"
TagVecDoubleP == "P<vector<double>>"
\* double (T::*)(void), a pointer to a member function
TagFunction == "double(T::*)()"

HandleTags == {TagHandle(T) : T \in Types}
TagClass(tag) == IF tag = "SP<Storage>" THEN "Storage" ELSE "Channel"

\* the null shared_ptr
Null == 0

\* the null raw pointer
NullPtr == <<0, "null">>

\* T(): the value-initialised T that map::operator[] inserts
NullOf(tag) == IF tag \in {"SP<Storage>", "SP<Channel>"} THEN Null ELSE NullPtr

\* a double member before anything was assigned to it
Indeterminate == [indeterminate |-> TRUE]

\* Simulation* : NULL, or the simulation that owns this register
NullSim == "NULL"
TheSim == "sim"

\* ---------------------------------------------------------- exceptions

NoError == [kind |-> "none"]
\* "Couldn't find key [%d] in object register"
KeyNotFound(aKey) == [kind |-> "KeyNotFound", key |-> aKey]
\* "Couldn't find object register for type [%d]"
TypeRegistryNotFound(tag) == [kind |-> "TypeRegistryNotFound", type |-> tag]
\* "Couldn't find a typename for key " + aKey
NoTypeName(aKey) == [kind |-> "NoTypeName", key |-> aKey]
\* "Couldn't reset value to " + s
ConversionFailure(s) == [kind |-> "ConversionFailure", value |-> s]
\* "member '" + var_name + "' not defined for " + aClassName + ": " + e.what()
MissingMember(var_name, aClassName, e) ==
    [kind |-> "MissingMember", member |-> var_name, cls |-> aClassName, cause |-> e]
\* "Class '" + arClassName + "' not registered for use in T4 INI file"
UnknownClass(arClassName) == [kind |-> "UnknownClass", cls |-> arClassName]
\* the process died (null dereference)
Crash == [kind |-> "crash"]

\* ------------------------------------------------------------ Register<T>

NewRegister == [Data |-> EmptyMap, StringData |-> EmptyMap]

\* a BaseRegister::Ptr that holds no register (what map::operator[] inserts)
NullRegister == [null |-> TRUE]

\* Registers[type_name] yields a null pointer: no entry, or a null entry
IsNullRegister(Regs, type_name) ==
    \/ type_name \notin DOMAIN Regs
    \/ "Data" \notin DOMAIN Regs[type_name]

Register_Get(reg, aKey) ==
    IF aKey \notin DOMAIN reg.Data
    THEN [err |-> KeyNotFound(aKey), val |-> Null]
    ELSE [err |-> NoError, val |-> reg.Data[aKey]]

\* a lookup that yields the empty string for a key without an origin string
Register_GetString_OrEmpty(reg, aKey) ==
    IF aKey \notin DOMAIN reg.StringData
    THEN [err |-> NoError, val |-> <<>>]
    ELSE [err |-> NoError, val |-> reg.StringData[aKey]]

Register_GetString(reg, aKey) ==
    IF aKey \notin DOMAIN reg.StringData
    THEN [err |-> KeyNotFound(aKey), val |-> <<>>]
    ELSE [err |-> NoError, val |-> reg.StringData[aKey]]

Register_SetString(reg, aKey, aString) ==
    [reg EXCEPT !.StringData = Put(reg.StringData, aKey, aString)]

\* apDefaultValue: <<FALSE>> is NULL, <<TRUE, s>> a default string
NoDefault == <<FALSE>>
Default(s) == <<TRUE, s>>

\* a Set that forgets the origin string of the key when it is given no default
Register_Set_DropString(reg, aKey, aVal, apDefaultValue) ==
    IF apDefaultValue[1]
    THEN [reg EXCEPT !.Data = Put(reg.Data, aKey, aVal),
                     !.StringData = Put(reg.StringData, aKey, apDefaultValue[2])]
    ELSE [reg EXCEPT !.Data = Put(reg.Data, aKey, aVal),
                     !.StringData = [k \in DOMAIN reg.StringData \ {aKey} |->
                                        reg.StringData[k]]]

\* a Set that stores the value and takes no notice of the default value
Register_Set_IgnoreDefault(reg, aKey, aVal, apDefaultValue) ==
    [reg EXCEPT !.Data = Put(reg.Data, aKey, aVal)]

Register_Set(reg, aKey, aVal, apDefaultValue) ==
    LET r1 == [reg EXCEPT !.Data = Put(reg.Data, aKey, aVal)]
    IN  IF apDefaultValue[1]
        THEN Register_SetString(r1, aKey, apDefaultValue[2])
        ELSE r1

\* ---------------------------------------------------------- ObjectRegister
\* The register and the memory it points into, as one value W:
\*   Registers, TypeNames  the members of ObjectRegister
\*   objects               the objects constructed so far
\*   mem                   the member variables of the objects
\*   stored                the value each Set<T>(key, value) call gave, latest
\*                         per type and key, since the last Clear
\*   said                  the origin string each SetString or Set with a
\*                         default gave, latest per type and key, since the
\*                         last Clear
\*   lastSaid              the same, latest per key

\* a lookup that yields the null value for a key the register does not hold
ObjectRegister_Get_OrNull(W, tag, aKey) ==
    IF tag \in DOMAIN W.Registers /\ aKey \in DOMAIN W.Registers[tag].Data
    THEN [err |-> NoError, val |-> W.Registers[tag].Data[aKey]]
    ELSE [err |-> NoError, val |-> Null]

ObjectRegister_Get(W, tag, aKey) ==
    IF tag \in DOMAIN W.Registers
    THEN Register_Get(W.Registers[tag], aKey)
    ELSE [err |-> TypeRegistryNotFound(tag), val |-> Null]

HasKey(W, aKey) == aKey \in DOMAIN W.TypeNames

\* a lookup that yields the null handle for an instance it does not find
FindInstance_OrNull(W, T, aName) ==
    LET key == RegisterString(class_name[T], aName, <<>>)
    IN  IF TagHandle(T) \in DOMAIN W.Registers
           /\ key \in DOMAIN W.Registers[TagHandle(T)].Data
        THEN [err |-> NoError, val |-> W.Registers[TagHandle(T)].Data[key]]
        ELSE [err |-> NoError, val |-> Null]

FindInstance(W, T, aName) ==
    ObjectRegister_Get(W, TagHandle(T), RegisterString(class_name[T], aName, <<>>))

\* a Set that leaves the type name of a key that already has one
ObjectRegister_Set_KeepTypeName(W, tag, arKey, arVal, apDefaultValue) ==
    LET pRegT == IF tag \notin DOMAIN W.Registers
                 THEN NewRegister
                 ELSE W.Registers[tag]
    IN  [W EXCEPT
           !.Registers = Put(W.Registers, tag,
                             Register_Set(pRegT, arKey, arVal, apDefaultValue)),
           !.TypeNames = IF arKey \in DOMAIN W.TypeNames THEN @
                         ELSE Put(W.TypeNames, arKey, tag),
           !.stored = Put(W.stored, <<tag, arKey>>, arVal),
           !.said = IF apDefaultValue[1]
                    THEN Put(W.said, <<tag, arKey>>, apDefaultValue[2]) ELSE @,
           !.lastSaid = IF apDefaultValue[1]
                        THEN Put(W.lastSaid, arKey, apDefaultValue[2]) ELSE @]

\* a Set that takes the key out of the type register it was stored in before
ObjectRegister_Set_Move(W, tag, arKey, arVal, apDefaultValue) ==
    LET pRegT == IF tag \notin DOMAIN W.Registers
                 THEN NewRegister
                 ELSE W.Registers[tag]
        Erased(m) == [k \in DOMAIN m \ {arKey} |-> m[k]]
        Regs  == [t \in DOMAIN W.Registers |->
                    IF "Data" \in DOMAIN W.Registers[t]
                    THEN [Data |-> Erased(W.Registers[t].Data),
                          StringData |-> Erased(W.Registers[t].StringData)]
                    ELSE W.Registers[t]]
    IN  [W EXCEPT
           !.Registers = Put(Regs, tag,
                             Register_Set(pRegT, arKey, arVal, apDefaultValue)),
           !.TypeNames = Put(W.TypeNames, arKey, tag),
           !.stored = Put(W.stored, <<tag, arKey>>, arVal),
           !.said = IF apDefaultValue[1]
                    THEN Put(W.said, <<tag, arKey>>, apDefaultValue[2]) ELSE @,
           !.lastSaid = IF apDefaultValue[1]
                        THEN Put(W.lastSaid, arKey, apDefaultValue[2]) ELSE @]

ObjectRegister_Set(W, tag, arKey, arVal, apDefaultValue) ==
    LET pRegT == IF tag \notin DOMAIN W.Registers
                 THEN NewRegister
                 ELSE W.Registers[tag]
    IN  [W EXCEPT
           !.Registers = Put(W.Registers, tag,
                             Register_Set(pRegT, arKey, arVal, apDefaultValue)),
           !.TypeNames = Put(W.TypeNames, arKey, tag),
           !.stored = Put(W.stored, <<tag, arKey>>, arVal),
           !.said = IF apDefaultValue[1]
                    THEN Put(W.said, <<tag, arKey>>, apDefaultValue[2]) ELSE @,
           !.lastSaid = IF apDefaultValue[1]
                        THEN Put(W.lastSaid, arKey, apDefaultValue[2]) ELSE @]

\* Set(S& arObj, arKey, arVal, apDefaultValue) and RegisterMember
Set_Member(W, obj, arKey, tag, arVal, apDefaultValue) ==
    ObjectRegister_Set(W, tag,
        RegisterString(class_name[W.objects[obj].type], W.objects[obj].name, arKey),
        arVal, apDefaultValue)

\* result of an operation that can throw: the register afterwards and the
\* exception (NoError when it returned)
Ret(W, e) == [W |-> W, err |-> e]

\* a SetString that looks the type name up with TypeNames[aKey], which
\* inserts an empty type name for a key that has none, before it throws
ObjectRegister_SetString_Insert(W, aKey, aString) ==
    IF aKey \notin DOMAIN W.TypeNames
    THEN Ret([W EXCEPT !.TypeNames = Put(W.TypeNames, aKey, "")], NoTypeName(aKey))
    ELSE LET type_name == W.TypeNames[aKey]
         IN  IF IsNullRegister(W.Registers, type_name)
             THEN Ret([W EXCEPT !.Registers = Put(W.Registers, type_name, NullRegister)],
                      Crash)
             ELSE Ret([W EXCEPT !.Registers[type_name] =
                          Register_SetString(W.Registers[type_name], aKey, aString)],
                      NoError)

ObjectRegister_SetString(W, aKey, aString) ==
    IF aKey \notin DOMAIN W.TypeNames
    THEN Ret(W, NoTypeName(aKey))
    ELSE LET type_name == W.TypeNames[aKey]
         IN  IF IsNullRegister(W.Registers, type_name)
             THEN \* Registers[type_name] inserts a null pointer, pRegT-> faults
                  Ret([W EXCEPT !.Registers = Put(W.Registers, type_name, NullRegister)],
                      Crash)
             ELSE Ret([W EXCEPT !.Registers[type_name] =
                          Register_SetString(W.Registers[type_name], aKey, aString),
                                !.said = Put(W.said, <<type_name, aKey>>, aString),
                                !.lastSaid = Put(W.lastSaid, aKey, aString)],
                      NoError)

ObjectRegister_GetString(W, aKey) ==
    IF aKey \notin DOMAIN W.TypeNames
    THEN [W |-> W, err |-> NoTypeName(aKey), val |-> <<>>]
    ELSE LET type_name == W.TypeNames[aKey]
         IN  IF IsNullRegister(W.Registers, type_name)
             THEN [W |-> [W EXCEPT !.Registers =
                                      Put(W.Registers, type_name, NullRegister)],
                   err |-> Crash, val |-> <<>>]
             ELSE LET r == Register_GetString(W.Registers[type_name], aKey)
                  IN  [W |-> W, err |-> r.err, val |-> r.val]

\* string GetType(string aKey) { return TypeNames[aKey]; }: operator[] on the
\* map inserts an empty type name for a key that has none
GetType(W, aKey) ==
    IF aKey \in DOMAIN W.TypeNames
    THEN [W |-> W, val |-> W.TypeNames[aKey]]
    ELSE [W |-> [W EXCEPT !.TypeNames = Put(W.TypeNames, aKey, "")], val |-> ""]

\* a Clear that leaves TypeNames as it is
Clear_RegistersOnly(W) == [W EXCEPT !.Registers = EmptyMap, !.stored = EmptyMap,
                                    !.said = EmptyMap, !.lastSaid = EmptyMap]

Clear(W) == [W EXCEPT !.Registers = EmptyMap, !.TypeNames = EmptyMap,
                      !.stored = EmptyMap, !.said = EmptyMap,
                      !.lastSaid = EmptyMap]

\* ------------------------------------------------------------ conversions

Digits == {"0", "1", "2", "5"}
DigitVal == ("0" :> 0) @@ ("1" :> 1) @@ ("2" :> 2) @@ ("5" :> 5)

RECURSIVE DigitsToNat(_, _)
DigitsToNat(s, acc) ==
    IF s = <<>> THEN acc ELSE DigitsToNat(Tail(s), acc * 10 + DigitVal[s[1]])

RECURSIVE StripTrailingZeros(_)
StripTrailingZeros(s) ==
    IF s # <<>> /\ s[Len(s)] = "0"
    THEN StripTrailingZeros(SubSeq(s, 1, Len(s) - 1))
    ELSE s

\* boost::lexical_cast<double>(s) on plain decimal literals: the value is
\* m * 10^-e in lowest form, so that "1.50", "1.5" and "01.5" are one value
lexical_cast_double(s) ==
    LET dots == {i \in 1..Len(s) : s[i] = "."}
        ok   == /\ \A i \in 1..Len(s) : s[i] \in Digits \cup {"."}
                /\ Cardinality(dots) <= 1
                /\ \E i \in 1..Len(s) : s[i] \in Digits
        dot  == IF dots = {} THEN Len(s) + 1 ELSE CHOOSE i \in dots : TRUE
        ip   == SubSeq(s, 1, dot - 1)
        fp   == StripTrailingZeros(SubSeq(s, dot + 1, Len(s)))
    IN  IF ok
        THEN [ok |-> TRUE, val |-> [m |-> DigitsToNat(ip \o fp, 0), e |-> Len(fp)]]
        ELSE [ok |-> FALSE, val |-> Null]

\* EnhancedIniFile::sSeps, the separators of a collection literal
sSeps == {"[", "]", ",", " "}

\* boost::tokenizer<char_separator<char> >: the maximal runs of characters
\* that are no separator, in order (empty tokens dropped)
RECURSIVE Tokenize(_, _)
Tokenize(s, cur) ==
    IF s = <<>>
    THEN IF cur = <<>> THEN <<>> ELSE <<cur>>
    ELSE IF s[1] \in sSeps
         THEN (IF cur = <<>> THEN <<>> ELSE <<cur>>) \o Tokenize(Tail(s), <<>>)
         ELSE Tokenize(Tail(s), Append(cur, s[1]))

\* a conversion that leaves the value alone when the string is no literal
ResetFromString_Value_Lenient(W, p, s) ==
    LET c == lexical_cast_double(s)
    IN  IF c.ok
        THEN Ret([W EXCEPT !.mem[p] = c.val], NoError)
        ELSE Ret(W, NoError)

\* a conversion that assigns before it finds that the string does not parse
ResetFromString_Value_Clobber(W, p, s) ==
    LET c == lexical_cast_double(s)
    IN  IF c.ok
        THEN Ret([W EXCEPT !.mem[p] = c.val], NoError)
        ELSE Ret([W EXCEPT !.mem[p] = Indeterminate], ConversionFailure(s))

\* ResetFromString(ObjectRegister&, T* p, string s)
ResetFromString_Value(W, p, s) ==
    LET c == lexical_cast_double(s)
    IN  IF c.ok
        THEN Ret([W EXCEPT !.mem[p] = c.val], NoError)
        ELSE Ret(W, ConversionFailure(s))

\* a resolver that looks the instance up and assigns only its temporary
ResetFromString_RefP_TempOnly(W, T, p, s) ==
    LET temp == FindInstance(W, T, s)
    IN  Ret(W, temp.err)

\* ResetFromString(ObjectRegister&, boost::shared_ptr<T>* p, string s)
ResetFromString_RefP(W, T, p, s) ==
    LET temp == FindInstance(W, T, s)
    IN  IF temp.err.kind = "none"
        THEN Ret([W EXCEPT !.mem[p] = temp.val], NoError)
        ELSE Ret(W, temp.err)

\* ResetFromString(ObjectRegister&, boost::shared_ptr<T>& p, string s): p is
\* the caller's variable; Register<T>::Reset passes its local copy of the
\* stored handle, so nothing of the register is assigned
ResetFromString_Ref(W, T, s) ==
    LET r == FindInstance(W, T, s)
    IN  Ret(W, r.err)

\* ResetFromString(ObjectRegister&, double (T::*pf)(void), string s): the
\* body is empty
ResetFromString_Function(W, pf, s) == Ret(W, NoError)

\* ::tolower on the letters
LowerOf ==
    ("A" :> "a") @@ ("B" :> "b") @@ ("C" :> "c") @@ ("D" :> "d") @@ ("E" :> "e") @@
    ("F" :> "f") @@ ("G" :> "g") @@ ("H" :> "h") @@ ("I" :> "i") @@ ("J" :> "j") @@
    ("K" :> "k") @@ ("L" :> "l") @@ ("M" :> "m") @@ ("N" :> "n") @@ ("O" :> "o") @@
    ("P" :> "p") @@ ("Q" :> "q") @@ ("R" :> "r") @@ ("S" :> "s") @@ ("T" :> "t") @@
    ("U" :> "u") @@ ("V" :> "v") @@ ("W" :> "w") @@ ("X" :> "x") @@ ("Y" :> "y") @@
    ("Z" :> "z")
tolower(c) == IF c \in DOMAIN LowerOf THEN LowerOf[c] ELSE c

\* a bool value
Bool(b) == [bool |-> b]

\* ResetFromString(ObjectRegister&, bool* p, string s) without the tolower
ResetFromString_Bool_CaseSensitive(W, p, s) ==
    IF s = <<"t", "r", "u", "e">> \/ s = <<"y", "e", "s">> \/ s = <<"y">>
    THEN Ret([W EXCEPT !.mem[p] = Bool(TRUE)], NoError)
    ELSE IF s = <<"f", "a", "l", "s", "e">> \/ s = <<"n", "o">> \/ s = <<"n">>
    THEN Ret([W EXCEPT !.mem[p] = Bool(FALSE)], NoError)
    ELSE Ret(W, ConversionFailure(s))

\* ResetFromString(ObjectRegister&, bool* p, string s)
ResetFromString_Bool(W, p, s) ==
    LET l == [i \in 1..Len(s) |-> tolower(s[i])]
    IN  IF l = <<"t", "r", "u", "e">> \/ l = <<"y", "e", "s">> \/ l = <<"y">>
        THEN Ret([W EXCEPT !.mem[p] = Bool(TRUE)], NoError)
        ELSE IF l = <<"f", "a", "l", "s", "e">> \/ l = <<"n", "o">> \/ l = <<"n">>
        THEN Ret([W EXCEPT !.mem[p] = Bool(FALSE)], NoError)
        ELSE Ret(W, ConversionFailure(l))

\* T temp; ResetFromString(arReg, &temp, *beg) for an element of a vector<T>:
\* T a class (temp a handle) or "double"
ResetFromString_Elem(W, T, tok) ==
    IF T = "double"
    THEN LET c == lexical_cast_double(tok)
         IN  IF c.ok THEN [err |-> NoError, val |-> c.val]
             ELSE [err |-> ConversionFailure(tok), val |-> Indeterminate]
    ELSE FindInstance(W, T, tok)

\* the loop of ResetFromString(ObjectRegister&, vector<T>* v, string s)
RECURSIVE ResetFromString_VecLoop(_, _, _, _)
ResetFromString_VecLoop(W, T, v, toks) ==
    IF toks = <<>> THEN Ret(W, NoError)
    ELSE LET temp == ResetFromString_Elem(W, T, Head(toks))
         IN  IF temp.err.kind = "none"
             THEN ResetFromString_VecLoop(
                      [W EXCEPT !.mem[v] = Append(@, temp.val)], T, v, Tail(toks))
             ELSE Ret(W, temp.err)

\* ResetFromString(ObjectRegister&, vector<T>* v, string s) without v->clear()
ResetFromString_Vec_NoClear(W, T, v, s) ==
    ResetFromString_VecLoop(W, T, v, Tokenize(s, <<>>))

\* a conversion of a vector that puts the previous contents back when an
\* element fails
ResetFromString_Vec_Restore(W, T, v, s) ==
    LET r == ResetFromString_VecLoop([W EXCEPT !.mem[v] = <<>>], T, v, Tokenize(s, <<>>))
    IN  IF r.err.kind = "none" THEN r ELSE Ret(W, r.err)

\* ResetFromString(ObjectRegister&, vector<T>* v, string s)
ResetFromString_Vec(W, T, v, s) ==
    ResetFromString_VecLoop([W EXCEPT !.mem[v] = <<>>], T, v, Tokenize(s, <<>>))

\* the overload that Register<T>::Reset selects for the stored type
ResetFromString(W, tag, p, s) ==
    IF tag \in HandleTags THEN ResetFromString_Ref(W, TagClass(tag), s)
    ELSE IF tag = TagFunction THEN ResetFromString_Function(W, p, s)
    ELSE IF p = NullPtr THEN Ret(W, Crash)
    ELSE IF tag = TagDoubleP THEN ResetFromString_Value(W, p, s)
    ELSE IF tag = TagBoolP THEN ResetFromString_Bool(W, p, s)
    ELSE IF tag = TagRefP THEN ResetFromString_RefP(W, "Channel", p, s)
    ELSE IF tag = TagVecDoubleP THEN ResetFromString_Vec(W, "double", p, s)
    ELSE ResetFromString_Vec(W, "Storage", p, s)

\* the loop of Register<T>::Reset over StringData, in key order
RECURSIVE Register_ResetLoop(_, _, _)
Register_ResetLoop(W, tag, keys) ==
    IF keys = <<>> THEN Ret(W, NoError)
    ELSE LET k  == Head(keys)
             s  == W.Registers[tag].StringData[k]
             \* T p = Data[k]: operator[] inserts a null value for a missing key
             W1 == IF k \in DOMAIN W.Registers[tag].Data THEN W
                   ELSE [W EXCEPT !.Registers[tag].Data = Put(@, k, NullOf(tag))]
             r  == ResetFromString(W1, tag, W1.Registers[tag].Data[k], s)
         IN  IF r.err.kind = "none"
             THEN Register_ResetLoop(r.W, tag, Tail(keys))
             ELSE r

Register_Reset(W, tag) ==
    Register_ResetLoop(W, tag, KeysInOrder(DOMAIN W.Registers[tag].StringData))

\* a Reset that visits the first type register only
ObjectRegister_Reset_FirstOnly(W, regs) ==
    IF regs = <<>> THEN Ret(W, NoError)
    ELSE IF IsNullRegister(W.Registers, Head(regs)) THEN Ret(W, Crash)
    ELSE Register_Reset(W, Head(regs))

\* a Reset that goes on to the later type registers after one failed, and
\* reports the first failure
RECURSIVE ObjectRegister_Reset_KeepGoing(_, _)
ObjectRegister_Reset_KeepGoing(W, regs) ==
    IF regs = <<>> THEN Ret(W, NoError)
    ELSE IF IsNullRegister(W.Registers, Head(regs)) THEN Ret(W, Crash)
    ELSE LET r == Register_Reset(W, Head(regs))
             l == ObjectRegister_Reset_KeepGoing(r.W, Tail(regs))
         IN  IF r.err.kind = "none" THEN l ELSE Ret(l.W, r.err)

\* ObjectRegister::Reset, the type registers visited in the order `regs`
\* (the order of the typeid names, which the implementation defines)
RECURSIVE ObjectRegister_Reset(_, _)
ObjectRegister_Reset(W, regs) ==
    IF regs = <<>> THEN Ret(W, NoError)
    ELSE IF IsNullRegister(W.Registers, Head(regs)) THEN Ret(W, Crash)
    ELSE LET r == Register_Reset(W, Head(regs))
         IN  IF r.err.kind = "none"
             THEN ObjectRegister_Reset(r.W, Tail(regs))
             ELSE r

\* every order of the tags S
RECURSIVE Orders(_)
Orders(S) ==
    IF S = {} THEN {<<>>}
    ELSE UNION {{<<t>> \o o : o \in Orders(S \ {t})} : t \in S}

\* one order of the tags S
RECURSIVE SomeOrder(_)
SomeOrder(S) ==
    IF S = {} THEN <<>>
    ELSE LET t == CHOOSE x \in S : TRUE IN <<t>> \o SomeOrder(S \ {t})

\* The orders in which Registers can be iterated: the order of the typeid
\* names, which the implementation defines.  Visiting a register that holds
\* no origin string changes nothing wherever it comes, so those registers are
\* put last, in one order; the others come in every order.
ResetOrders(Regs) ==
    LET idle == {t \in DOMAIN Regs : /\ ~IsNullRegister(Regs, t)
                                      /\ DOMAIN Regs[t].StringData = {}}
    IN  {o \o SomeOrder(idle) : o \in Orders(DOMAIN Regs \ idle)}

\* ------------------------------------------------- the registrable classes

fEOL == <<"E">>
fSpillOutlet == <<"O">>
fSources == <<"R">>
fCapacity == <<"K">>

\* new T(aName): the object and its member variables
NewObject(W, T, aName) ==
    LET h == Len(W.objects) + 1
        members == IF T = "Storage"
                   THEN (<<h, "mEOL">> :> Indeterminate) @@
                        (<<h, "mpSpillOutlet">> :> Null) @@
                        (<<h, "mSources">> :> <<>>)
                   ELSE (<<h, "mCapacity">> :> Indeterminate)
    IN  [W EXCEPT !.objects = Append(@, [type |-> T, name |-> aName]),
                  !.mem = members @@ @]

\* void Storage::Register(ObjectRegister& aReg)
Storage_Register(W, h) ==
    LET W1 == Set_Member(W, h, fEOL, TagDoubleP, <<h, "mEOL">>, NoDefault)
        W2 == Set_Member(W1, h, fSpillOutlet, TagRefP, <<h, "mpSpillOutlet">>, NoDefault)
    IN  Set_Member(W2, h, fSources, TagVecP, <<h, "mSources">>, NoDefault)

\* a Register method that declares a member with a default string
Channel_Register(W, h) ==
    Set_Member(W, h, fCapacity, TagDoubleP, <<h, "mCapacity">>, Default(<<"2">>))

\* Simulation::Objects(): the register the simulation owns
Objects(sim) == IF sim = TheSim THEN "this" ELSE "none"

\* SetInstance(aPtr).  calls is the record of the Register calls made: the
\* object, the argument, the register the hook reaches through it, and whether
\* FindInstance found the object when the hook was entered.  With a null
\* mpSimulation the hook receives a null reference: ub is what that does
\* ("crash", or "skip": the hook's writes are lost)
SetInstance(W, sim, h, ub) ==
    LET T    == W.objects[h].type
        key  == RegisterString(class_name[T], W.objects[h].name, <<>>)
        W1   == ObjectRegister_Set(W, TagHandle(T), key, h, NoDefault)
        f    == FindInstance(W1, T, W.objects[h].name)
        call == [obj |-> h, arg |-> sim, reg |-> Objects(sim),
                 found |-> (f.err.kind = "none" /\ f.val = h)]
    IN  IF sim = NullSim
        THEN [W |-> W1, err |-> IF ub = "crash" THEN Crash ELSE NoError,
              calls |-> <<call>>]
        ELSE [W |-> IF T = "Storage" THEN Storage_Register(W1, h)
                    ELSE Channel_Register(W1, h),
              err |-> NoError, calls |-> <<call>>]

\* ------------------------------------------------------------ the factory

\* a loop that goes on to the later members after a member failed, and reports
\* the first failure
RECURSIVE MakeObject_Loop_KeepGoing(_, _, _, _, _, _)
MakeObject_Loop_KeepGoing(W, aClassName, aName, aInifile, names, applied) ==
    IF names = <<>> THEN [W |-> W, err |-> NoError, applied |-> applied]
    ELSE LET var_name == Head(names)
             r == ObjectRegister_SetString(
                      W, RegisterString(aClassName, aName, var_name),
                      aInifile[var_name])
         IN  IF r.err.kind = "none"
             THEN MakeObject_Loop_KeepGoing(r.W, aClassName, aName, aInifile,
                                            Tail(names), Append(applied, var_name))
             ELSE LET l == MakeObject_Loop_KeepGoing(r.W, aClassName, aName,
                                                     aInifile, Tail(names), <<>>)
                  IN  [W |-> l.W, err |-> MissingMember(var_name, aClassName, r.err),
                       applied |-> applied]

\* the loop of MakeObject over aInifile; applied lists the members whose
\* SetString returned
RECURSIVE MakeObject_Loop(_, _, _, _, _, _)
MakeObject_Loop(W, aClassName, aName, aInifile, names, applied) ==
    IF names = <<>> THEN [W |-> W, err |-> NoError, applied |-> applied]
    ELSE LET var_name  == Head(names)
             var_value == aInifile[var_name]
             r == ObjectRegister_SetString(
                      W, RegisterString(aClassName, aName, var_name), var_value)
         IN  IF r.err.kind = "none"
             THEN MakeObject_Loop(r.W, aClassName, aName, aInifile,
                                  Tail(names), Append(applied, var_name))
             ELSE IF r.err.kind = "crash"
             THEN [W |-> r.W, err |-> Crash, applied |-> applied]
             ELSE [W |-> r.W, err |-> MissingMember(var_name, aClassName, r.err),
                   applied |-> applied]

\* a maker that derives every value from its origin string before it returns
MakeObject_ThenReset(W, sim, T, aClassName, aName, aInifile, ub) ==
    LET W0    == NewObject(W, T, aName)
        thing == Len(W0.objects)
        r     == SetInstance(W0, sim, thing, ub)
    IN  IF r.err.kind # "none"
        THEN [W |-> r.W, err |-> r.err, applied |-> <<>>, calls |-> r.calls,
              thing |-> thing]
        ELSE LET l == MakeObject_Loop(r.W, aClassName, aName, aInifile,
                                      KeysInOrder(DOMAIN aInifile), <<>>)
                 d == ObjectRegister_Reset(l.W, SomeOrder(DOMAIN l.W.Registers))
             IN  [W |-> d.W, err |-> l.err, applied |-> l.applied,
                  calls |-> r.calls, thing |-> thing]

\* a maker that takes the new object out of the register when a member fails
MakeObject_RollBack(W, sim, T, aClassName, aName, aInifile, ub) ==
    LET W0    == NewObject(W, T, aName)
        thing == Len(W0.objects)
        r     == SetInstance(W0, sim, thing, ub)
    IN  IF r.err.kind # "none"
        THEN [W |-> r.W, err |-> r.err, applied |-> <<>>, calls |-> r.calls,
              thing |-> thing]
        ELSE LET l == MakeObject_Loop(r.W, aClassName, aName, aInifile,
                                      KeysInOrder(DOMAIN aInifile), <<>>)
             IN  [W |-> IF l.err.kind = "none" THEN l.W
                        ELSE [W0 EXCEPT !.stored = l.W.stored, !.said = l.W.said,
                                        !.lastSaid = l.W.lastSaid],
                  err |-> l.err, applied |-> l.applied,
                  calls |-> r.calls, thing |-> thing]

\* MakeObject<T>(aClassName, aName, apReg, aInifile)
MakeObject(W, sim, T, aClassName, aName, aInifile, ub) ==
    LET W0    == NewObject(W, T, aName)
        thing == Len(W0.objects)
        r     == SetInstance(W0, sim, thing, ub)
    IN  IF r.err.kind # "none"
        THEN [W |-> r.W, err |-> r.err, applied |-> <<>>, calls |-> r.calls,
              thing |-> thing]
        ELSE LET l == MakeObject_Loop(r.W, aClassName, aName, aInifile,
                                      KeysInOrder(DOMAIN aInifile), <<>>)
             IN  [W |-> l.W, err |-> l.err, applied |-> l.applied,
                  calls |-> r.calls, thing |-> thing]

\* a factory that falls back to the Storage maker for a class it does not
\* know, and reports the class afterwards
ObjectFactory_Make_Fallback(W, makers, sim, arClassName, arName, arInifile, ub) ==
    IF arClassName \in DOMAIN makers
    THEN MakeObject(W, sim, makers[arClassName], arClassName, arName, arInifile, ub)
    ELSE [W |-> MakeObject(W, sim, "Storage", arClassName, arName, EmptyMap, "skip").W,
          err |-> UnknownClass(arClassName), applied |-> <<>>,
          calls |-> <<>>, thing |-> Null]

\* ObjectFactory::Make
ObjectFactory_Make(W, makers, sim, arClassName, arName, arInifile, ub) ==
    IF arClassName \in DOMAIN makers
    THEN MakeObject(W, sim, makers[arClassName], arClassName, arName, arInifile, ub)
    ELSE [W |-> W, err |-> UnknownClass(arClassName), applied |-> <<>>,
          calls |-> <<>>, thing |-> Null]

\* ObjectFactory::AddMaker(arClassName, &MakeObject<T>)
AddMaker(makers, arClassName, T) == Put(makers, arClassName, T)

\* the map<string, string> that holds a group's name = value lines
RECURSIVE DocToMap(_)
DocToMap(doc) ==
    IF doc = <<>> THEN EmptyMap
    ELSE Put(DocToMap(SubSeq(doc, 1, Len(doc) - 1)), doc[Len(doc)][1], doc[Len(doc)][2])

\* ------------------------------------------------- objects from an ini file

\* "Failed creating object '" + instancename + "' defined in " + ... + e.what()
FailedCreating(instancename, e) ==
    [kind |-> "FailedCreating", name |-> instancename, cause |-> e]

\* the call arFactory.Make(classname, instancename, *nvp) and the call
\* arRegister.Reset(), as written down in the record of a load
MakeCall(classname, instancename) ==
    [call |-> "Make", cls |-> classname, name |-> instancename]
ResetCall == [call |-> "Reset"]

\* the loop of MakeObjectsFromIniFile over the groups from inifile.Begin() to
\* inifile.End(); a group is [classname, instancename, nvp], classname empty
\* for a group that describes no object; calls is the record of the calls
RECURSIVE MakeObjectsFromIniFile_Loop(_, _, _, _, _, _)
MakeObjectsFromIniFile_Loop(W, makers, sim, groups, ub, calls) ==
    IF groups = <<>> THEN [W |-> W, err |-> NoError, calls |-> calls]
    ELSE LET classname    == Head(groups).classname
             instancename == Head(groups).instancename
             nvp          == DocToMap(Head(groups).nvp)
         IN  IF classname = <<>>
             THEN MakeObjectsFromIniFile_Loop(W, makers, sim, Tail(groups), ub, calls)
             ELSE LET r == ObjectFactory_Make(W, makers, sim, classname,
                                              instancename, nvp, ub)
                      c == Append(calls, MakeCall(classname, instancename))
                  IN  IF r.err.kind = "none"
                      THEN MakeObjectsFromIniFile_Loop(r.W, makers, sim,
                                                       Tail(groups), ub, c)
                      ELSE IF r.err.kind = "crash"
                      THEN [W |-> r.W, err |-> Crash, calls |-> c]
                      ELSE [W |-> r.W, err |-> FailedCreating(instancename, r.err),
                            calls |-> c]

\* a loader that calls Reset once the last group was made
MakeObjectsFromIniFile_ThenReset(W, makers, sim, groups, ub) ==
    LET l == MakeObjectsFromIniFile_Loop(W, makers, sim, groups, ub, <<>>)
        d == ObjectRegister_Reset(l.W, SomeOrder(DOMAIN l.W.Registers))
    IN  IF l.err.kind = "none"
        THEN [W |-> d.W, err |-> d.err, calls |-> Append(l.calls, ResetCall)]
        ELSE l

\* MakeObjectsFromIniFile(arFactory, apStream, aStreamName, arFileSystem,
\* arRegister), the stream holding the groups
MakeObjectsFromIniFile(W, makers, sim, groups, ub) ==
    MakeObjectsFromIniFile_Loop(W, makers, sim, groups, ub, <<>>)

\* --------------------------------------------------------------- callbacks
\* A multimap<string, boost::function> is the sequence of its <<name, functor>>
\* values in the order of iteration.  A functor is known by a letter; calling
\* it returns, and the call is written down as [f, arg].

\* the argument of a call of a boost::function<void (void)>
NoArg == "void"

\* multimap::lower_bound(k), multimap::upper_bound(k): the number of values
\* before the position
lower_bound(m, k) == Cardinality({i \in 1..Len(m) : StrLess(m[i][1], k)})
upper_bound(m, k) == Cardinality({i \in 1..Len(m) : ~StrLess(k, m[i][1])})

\* the value v put after the first n values of m
InsertAt(m, n, v) == SubSeq(m, 1, n) \o <<v>> \o SubSeq(m, n + 1, Len(m))

\* an insert that puts the value before the values of the same key
multimap_insert_First(m, v) == InsertAt(m, lower_bound(m, v[1]), v)

\* multimap::insert(value_type): after the values of the same key
multimap_insert(m, v) == InsertAt(m, upper_bound(m, v[1]), v)

\* ObjectRegister::AddVoidCallback on the table m
AddVoidCallback(m, aName, aFunctor) == multimap_insert(m, <<aName, aFunctor>>)

\* ObjectRegister::AddTimeCallback on the table m
AddTimeCallback(m, aName, aFunctor) == multimap_insert(m, <<aName, aFunctor>>)

\* for ( ; range.first != range.second; range.first++ ) (*range.first).second(arg)
RECURSIVE CallRange(_, _, _, _)
CallRange(m, first, second, arg) ==
    IF first = second THEN <<>>
    ELSE <<[f |-> m[first + 1][2], arg |-> arg]>> \o CallRange(m, first + 1, second, arg)

\* What calling a functor of mVoidCallbacks does to that table while
\* DoVoidCallbacks(aName) runs: the functor "R" is bound to
\* AddVoidCallback(aName, "B") on this register; the others leave it alone
Invoke(m, aName, aFunctor) ==
    IF aFunctor = "R" THEN AddVoidCallback(m, aName, "B") ELSE m

\* the loop of DoVoidCallbacks: range.first is at the value after the first
\* `first` values of m, range.second at the value before the last `rest`
\* values (an insert moves neither); adds lists what the functors added
RECURSIVE DoVoidCallbacks_Loop(_, _, _, _, _, _)
DoVoidCallbacks_Loop(m, first, rest, aName, calls, adds) ==
    IF first = Len(m) - rest
    THEN [m |-> m, err |-> NoError, calls |-> calls, adds |-> adds]
    ELSE LET f == m[first + 1][2]
         IN  DoVoidCallbacks_Loop(
                 Invoke(m, aName, f), first + 1, rest, aName,
                 Append(calls, [f |-> f, arg |-> NoArg]),
                 IF f = "R"
                 THEN Append(adds, [type |-> "void", name |-> aName, f |-> "B"])
                 ELSE adds)

\* a DoVoidCallbacks that throws when no callback has the name
DoVoidCallbacks_Strict(m, aName) ==
    IF lower_bound(m, aName) = upper_bound(m, aName)
    THEN [m |-> m, calls |-> <<>>, adds |-> <<>>, err |-> KeyNotFound(aName)]
    ELSE DoVoidCallbacks_Loop(m, lower_bound(m, aName),
                              Len(m) - upper_bound(m, aName), aName, <<>>, <<>>)

\* ObjectRegister::DoVoidCallbacks on the table m: the table afterwards, the
\* calls made, the callbacks the functors added and what was thrown
DoVoidCallbacks(m, aName) ==
    DoVoidCallbacks_Loop(m, lower_bound(m, aName), Len(m) - upper_bound(m, aName),
                         aName, <<>>, <<>>)

\* ObjectRegister::DoTimeCallbacks on the table m
DoTimeCallbacks(m, aName, arTime) ==
    [m |-> m, err |-> NoError,
     calls |-> CallRange(m, lower_bound(m, aName), upper_bound(m, aName), arTime)]

\* ------------------------------------------------------------------ state

VARIABLES
    Registers,      \* ObjectRegister::Registers
    TypeNames,      \* ObjectRegister::TypeNames
    mpSimulation,   \* ObjectRegister::mpSimulation
    mMakers,        \* ObjectFactory::mMakers
    mVoidCallbacks, \* ObjectRegister::mVoidCallbacks, in the order of the multimap
    mTimeCallbacks, \* ObjectRegister::mTimeCallbacks, in the order of the multimap
    added,          \* history: the callbacks added, in the order of the calls
    objects,        \* the objects constructed so far: [type, name]
    mem,            \* the member variables of the objects
    stored,         \* history: the values given to Set since the last Clear
    said,           \* history: the origin strings given, per type and key
    lastSaid,       \* history: the origin strings given, per key
    alive,          \* FALSE once the process has died
    result          \* the last call, its arguments and what it returned or threw

vars == <<Registers, TypeNames, mpSimulation, mMakers, mVoidCallbacks,
          mTimeCallbacks, added, objects, mem, stored, said, lastSaid, alive, result>>

World == [Registers |-> Registers, TypeNames |-> TypeNames,
          objects |-> objects, mem |-> mem, stored |-> stored,
          said |-> said, lastSaid |-> lastSaid]

Install(W) ==
    /\ Registers' = W.Registers
    /\ TypeNames' = W.TypeNames
    /\ objects' = W.objects
    /\ mem' = W.mem
    /\ stored' = W.stored
    /\ said' = W.said
    /\ lastSaid' = W.lastSaid

\* ObjectRegister() : mpSimulation(NULL) {} and an empty ObjectFactory
Init ==
    /\ Registers = EmptyMap
    /\ TypeNames = EmptyMap
    /\ mpSimulation = NullSim
    /\ mMakers = EmptyMap
    /\ mVoidCallbacks = <<>>
    /\ mTimeCallbacks = <<>>
    /\ added = <<>>
    /\ objects = <<>>
    /\ mem = EmptyMap
    /\ stored = EmptyMap
    /\ said = EmptyMap
    /\ lastSaid = EmptyMap
    /\ alive = TRUE
    /\ result = [op |-> "new"]

\* ----------------------------------------------------------------- inputs

ClassNames == {<<"S">>, <<"C">>, <<"W">>}
InstanceNames == {<<"a">>, <<"b">>}

\* The AddMaker calls of the host's start-up code, in program order:
\* AddMaker("S", &MakeObject<Storage>), AddMaker("C", &MakeObject<Channel>),
\* and a maker registered under a name that is not its class's
MakerCalls == << <<<<"S">>, "Storage">>, <<<<"C">>, "Channel">>, <<<<"W">>, "Channel">> >>

\* the name = value lines of a group, in document order: members that
\* Storage declares (E, O, R), that Channel declares (K), that no class
\* declares (A, Z)
lEOL == <<fEOL, <<"1", ".", "5">>>>
lSpillOutlet == <<fSpillOutlet, <<"b">>>>
lSources == <<fSources, <<"[", "b", ",", " ", "a", "]">>>>
lCapacity == <<fCapacity, <<"5">>>>
lA == <<<<"A">>, <<"1">>>>
lZ == <<<<"Z">>, <<"1">>>>

Docs == { <<>>,
          <<lSources, lEOL>>,
          <<lSpillOutlet>>,
          <<lZ, lEOL>>,
          <<lZ, lEOL, lA>>,
          <<lCapacity>> }

UBChoices == IF mpSimulation = NullSim THEN {"crash", "skip"} ELSE {"none"}

\* ---------------------------------------------------------------- actions

DoSetSimulation(apSim) ==
    /\ alive
    /\ mpSimulation' = apSim
    /\ result' = [op |-> "SetSimulation"]
    /\ UNCHANGED <<mVoidCallbacks, mTimeCallbacks, added,
                   Registers, TypeNames, mMakers, objects, mem, stored, said,
                   lastSaid, alive>>

DoAddMaker(arClassName, T) ==
    /\ alive
    /\ mMakers' = AddMaker(mMakers, arClassName, T)
    /\ result' = [op |-> "AddMaker", cls |-> arClassName]
    /\ UNCHANGED <<mVoidCallbacks, mTimeCallbacks, added,
                   Registers, TypeNames, mpSimulation, objects, mem, stored,
                   said, lastSaid, alive>>

DoMake(arClassName, arName, doc, ub) ==
    /\ alive
    /\ Len(objects) < MaxObjects
    /\ \E r \in {ObjectFactory_Make(World, mMakers, mpSimulation,
                                      arClassName, arName, DocToMap(doc), ub)} :
           /\ Install(r.W)
           /\ alive' = (r.err.kind # "crash")
           /\ result' = [op |-> "Make", cls |-> arClassName, name |-> arName,
                         doc |-> doc, err |-> r.err, applied |-> r.applied,
                         calls |-> r.calls, thing |-> r.thing]
    /\ UNCHANGED <<mVoidCallbacks, mTimeCallbacks, added,
                   mpSimulation, mMakers>>

DoReset(regs) ==
    /\ alive
    /\ \E r \in {ObjectRegister_Reset(World, regs)} :
           /\ Install(r.W)
           /\ alive' = (r.err.kind # "crash")
           /\ result' = [op |-> "Reset", err |-> r.err]
    /\ UNCHANGED <<mVoidCallbacks, mTimeCallbacks, added,
                   mpSimulation, mMakers>>

Next ==
    \/ \E apSim \in {TheSim} : DoSetSimulation(apSim)
    \/ \E i \in 1..Len(MakerCalls) :
          /\ i = Cardinality(DOMAIN mMakers) + 1
          /\ DoAddMaker(MakerCalls[i][1], MakerCalls[i][2])
    \/ \E c \in ClassNames, n \in InstanceNames, d \in Docs, ub \in UBChoices :
          DoMake(c, n, d, ub)
    \/ \E regs \in ResetOrders(Registers) : DoReset(regs)

Spec == Init /\ [][Next]_vars

\* ------------------------------------------- the register called directly

\* the keys and strings the caller uses
CallerKeys == {<<"x">>, RegisterString(<<"S">>, <<"a">>, <<>>)}
CallerStrings == {<<"b">>}

\* the Set<T>(key, value, default) calls the caller makes: a double* to a
\* member of the first object, with a default string, under a key of its own
\* or under the key of an instance; or a handle to a live object
SetCalls(objs) ==
    {<<TagDoubleP, <<"x">>, <<h, "mEOL">>, Default(<<"1", ".", "5">>)>> :
        h \in {1} \cap DOMAIN objs}
    \cup
    {<<TagDoubleP, RegisterString(<<"S">>, <<"a">>, <<>>), <<h, "mEOL">>, NoDefault>> :
        h \in {1} \cap DOMAIN objs}
    \cup
    {<<TagHandle(objs[h].type), <<"x">>, h, NoDefault>> : h \in DOMAIN objs}

\* T::Ptr h(new T(aName)); reg.SetInstance(h), by a caller that has set the
\* simulation
DoSetInstance(T, aName, ub) ==
    /\ alive
    /\ mpSimulation # NullSim
    /\ Len(objects) < MaxObjects
    /\ \E r \in {SetInstance(NewObject(World, T, aName), mpSimulation,
                              Len(objects) + 1, ub)} :
           /\ Install(r.W)
           /\ alive' = (r.err.kind # "crash")
           /\ result' = [op |-> "SetInstance", thing |-> Len(objects) + 1,
                         err |-> r.err, calls |-> r.calls]
    /\ UNCHANGED <<mVoidCallbacks, mTimeCallbacks, added,
                   mpSimulation, mMakers>>

\* reg.Set<T>(arKey, arVal, apDefaultValue)
DoSet(tag, arKey, arVal, apDefaultValue) ==
    /\ alive
    /\ Install(ObjectRegister_Set(World, tag, arKey, arVal, apDefaultValue))
    /\ result' = [op |-> "Set", tag |-> tag, key |-> arKey, val |-> arVal,
                  dflt |-> apDefaultValue, err |-> NoError]
    /\ UNCHANGED <<mVoidCallbacks, mTimeCallbacks, added,
                   mpSimulation, mMakers, alive>>

\* reg.SetString(aKey, aString)
DoSetString(aKey, aString) ==
    /\ alive
    /\ \E r \in {ObjectRegister_SetString(World, aKey, aString)} :
           /\ Install(r.W)
           /\ alive' = (r.err.kind # "crash")
           /\ result' = [op |-> "SetString", key |-> aKey, str |-> aString,
                         err |-> r.err]
    /\ UNCHANGED <<mVoidCallbacks, mTimeCallbacks, added,
                   mpSimulation, mMakers>>

\* reg.GetString(aKey)
DoGetString(aKey) ==
    /\ alive
    /\ \E r \in {ObjectRegister_GetString(World, aKey)} :
           /\ Install(r.W)
           /\ alive' = (r.err.kind # "crash")
           /\ result' = [op |-> "GetString", key |-> aKey, err |-> r.err,
                         val |-> r.val]
    /\ UNCHANGED <<mVoidCallbacks, mTimeCallbacks, added,
                   mpSimulation, mMakers>>

\* reg.Get<T>(aKey)
DoGet(tag, aKey) ==
    /\ alive
    /\ \E r \in {ObjectRegister_Get(World, tag, aKey)} :
           result' = [op |-> "Get", tag |-> tag, key |-> aKey, err |-> r.err,
                      val |-> r.val]
    /\ UNCHANGED <<mVoidCallbacks, mTimeCallbacks, added,
                   Registers, TypeNames, mpSimulation, mMakers, objects, mem,
                   stored, said, lastSaid, alive>>

\* a Clear that also empties the callback collections and forgets the
\* simulation
DoClear_Everything ==
    /\ alive
    /\ Install(Clear(World))
    /\ mVoidCallbacks' = <<>>
    /\ mTimeCallbacks' = <<>>
    /\ mpSimulation' = NullSim
    /\ result' = [op |-> "Clear"]
    /\ UNCHANGED <<added, mMakers, alive>>

\* reg.Clear()
DoClear ==
    /\ alive
    /\ Install(Clear(World))
    /\ result' = [op |-> "Clear"]
    /\ UNCHANGED <<mVoidCallbacks, mTimeCallbacks, added,
                   mpSimulation, mMakers, alive>>

NextRegister ==
    \/ \E apSim \in {TheSim} : DoSetSimulation(apSim)
    \/ \E T \in {"Storage"}, n \in InstanceNames, ub \in UBChoices :
          DoSetInstance(T, n, ub)
    \/ \E c \in SetCalls(objects) : DoSet(c[1], c[2], c[3], c[4])
    \/ \E k \in CallerKeys, str \in CallerStrings : DoSetString(k, str)
    \/ \E k \in CallerKeys : DoGetString(k)
    \/ \E tag \in {TagDoubleP, TagHandle("Storage")}, k \in CallerKeys : DoGet(tag, k)
    \/ \E regs \in ResetOrders(Registers) : DoReset(regs)
    \/ DoClear

SpecRegister == Init /\ [][NextRegister]_vars

\* ------------------------- entries of the caller's own variables converted

\* the caller's variables: bool flag; std::vector<double> v; and a pointer to
\* a member function
pFlag == <<0, "flag">>
pVector == <<0, "v">>
pfValue == <<0, "Value">>
kFlag == <<"b">>
kVector == <<"x">>
kFunction == <<"f">>


\* the upper-case letter of a lower-case one
UpperOf ==
    ("a" :> "A") @@ ("e" :> "E") @@ ("f" :> "F") @@ ("l" :> "L") @@ ("n" :> "N") @@
    ("o" :> "O") @@ ("r" :> "R") @@ ("s" :> "S") @@ ("t" :> "T") @@ ("u" :> "U") @@
    ("y" :> "Y")

\* every letter-case variant of the word w
CaseVariants(w) ==
    {v \in [1..Len(w) -> {w[i] : i \in 1..Len(w)} \cup {UpperOf[w[i]] : i \in 1..Len(w)}] :
        \A i \in 1..Len(w) : v[i] \in {w[i], UpperOf[w[i]]}}

TrueWords == {<<"t", "r", "u", "e">>, <<"y", "e", "s">>, <<"y">>}
FalseWords == {<<"f", "a", "l", "s", "e">>, <<"n", "o">>, <<"n">>}

\* the strings given for the bool: the variants of the six words, and others
BoolStrings ==
    UNION {CaseVariants(w) : w \in TrueWords \cup FalseWords}
    \cup { <<>>, <<"1">>, <<"0">>, <<"t">>, <<"t", "r", "u">>, <<"y", "e">>,
           <<"y", "e", "s", "s">>, <<" ", "y">>, <<"N", " ">>, <<"o", "n">>,
           <<"T", "r", "u", "e", "1">> }

\* the strings given for the vector
ListStrings ==
    { <<"[", "1", ".", "5", ",", " ", "2", "]">>,
      <<"[", "2", ",", "1", ".", "5", ",", "2", "]">>,
      <<"[", "5", "]">>,
      <<"[", "]">>,
      <<>>,
      <<"[", "2", ",", " ", "b", "]">>,
      <<"[", "b", ",", "2", "]">> }

\* the strings given for the vector and for the pointer to member function
StringCalls ==
    {<<kVector, str>> : str \in ListStrings} \cup {<<kFunction, <<"b">>>>}

\* T var; reg.Set(key, &var)
DoSetVariable(tag, arKey, p, init) ==
    /\ alive
    /\ Install([ObjectRegister_Set(World, tag, arKey, p, NoDefault) EXCEPT
                   !.mem = IF p \in DOMAIN @ THEN @ ELSE (p :> init) @@ @])
    /\ result' = [op |-> "Set", tag |-> tag, key |-> arKey, val |-> p,
                  dflt |-> NoDefault, err |-> NoError]
    /\ UNCHANGED <<mVoidCallbacks, mTimeCallbacks, added,
                   mpSimulation, mMakers, alive>>

\* a register that holds the caller's bool
NextConvert ==
    \/ DoSetVariable(TagBoolP, kFlag, pFlag, Indeterminate)
    \/ \E str \in BoolStrings : DoSetString(kFlag, str)
    \/ \E regs \in ResetOrders(Registers) : DoReset(regs)

SpecConvert == Init /\ [][NextConvert]_vars

\* a register that holds the caller's vector and pointer to member function
NextEntries ==
    \/ DoSetVariable(TagVecDoubleP, kVector, pVector, <<>>)
    \/ DoSet(TagFunction, kFunction, pfValue, NoDefault)
    \/ \E c \in StringCalls : DoSetString(c[1], c[2])
    \/ \E regs \in ResetOrders(Registers) : DoReset(regs)

SpecEntries == Init /\ [][NextEntries]_vars

\* a register that holds the caller's bool flag, double d and Channel::Ptr r,
\* and the Channel instance "b" that r can name
NextFields ==
    \/ \E apSim \in {TheSim} : DoSetSimulation(apSim)
    \/ \E ub \in UBChoices : DoSetInstance("Channel", <<"b">>, ub)
    \/ DoSetVariable(TagBoolP, kFlag, pFlag, Indeterminate)
    \/ DoSetVariable(TagDoubleP, <<"d">>, <<0, "d">>, Indeterminate)
    \/ DoSetVariable(TagRefP, <<"r">>, <<0, "r">>, Null)
    \/ \E k \in {kFlag, <<"d">>, <<"r">>}, str \in {<<"y">>, <<"5">>, <<"b">>} :
          DoSetString(k, str)
    \/ \E regs \in ResetOrders(Registers) : DoReset(regs)

SpecFields == Init /\ [][NextFields]_vars

\* ------------------------------------- the register asked about its keys

\* reg.HasKey(aKey)
DoHasKey(aKey) ==
    /\ alive
    /\ result' = [op |-> "HasKey", key |-> aKey, val |-> HasKey(World, aKey)]
    /\ UNCHANGED <<mVoidCallbacks, mTimeCallbacks, added,
                   Registers, TypeNames, mpSimulation, mMakers, objects, mem,
                   stored, said, lastSaid, alive>>

\* reg.GetType(aKey)
DoGetType(aKey) ==
    /\ alive
    /\ \E r \in {GetType(World, aKey)} :
           /\ Install(r.W)
           /\ result' = [op |-> "GetType", key |-> aKey, val |-> r.val]
    /\ UNCHANGED <<mVoidCallbacks, mTimeCallbacks, added,
                   mpSimulation, mMakers, alive>>

\* a register that holds the caller's bool flag and double d and is asked
\* about their keys
NextQueries ==
    \/ DoSetVariable(TagBoolP, kFlag, pFlag, Indeterminate)
    \/ DoSetVariable(TagDoubleP, <<"d">>, <<0, "d">>, Indeterminate)
    \/ \E k \in {kFlag, <<"d">>} : DoSetString(k, <<"5">>)
    \/ \E k \in {kFlag, <<"d">>} : DoGetString(k)
    \/ \E k \in {kFlag, <<"d">>} : DoHasKey(k)
    \/ \E k \in {kFlag, <<"d">>} : DoGetType(k)
    \/ DoClear

SpecQueries == Init /\ [][NextQueries]_vars

\* ------------------------------------------- the callbacks of the register

\* at most this many callbacks are added
MaxCallbacks == 3

\* the names of the callback collections, the functors of each type and the
\* DateTime values
CallbackNames == {<<"s">>, <<"e">>}
VoidFunctors == {"A", "B"}
TimeFunctors == {"C", "D"}
Times == {"2005-01-01", "2006-01-01"}

CallAddVoidCallback(aName, aFunctor) ==
    /\ alive
    /\ Len(added) < MaxCallbacks
    /\ mVoidCallbacks' = AddVoidCallback(mVoidCallbacks, aName, aFunctor)
    /\ added' = Append(added, [type |-> "void", name |-> aName, f |-> aFunctor])
    /\ result' = [op |-> "AddVoidCallback"]
    /\ UNCHANGED <<mTimeCallbacks, Registers, TypeNames, mpSimulation, mMakers,
                   objects, mem, stored, said, lastSaid, alive>>

CallAddTimeCallback(aName, aFunctor) ==
    /\ alive
    /\ Len(added) < MaxCallbacks
    /\ mTimeCallbacks' = AddTimeCallback(mTimeCallbacks, aName, aFunctor)
    /\ added' = Append(added, [type |-> "time", name |-> aName, f |-> aFunctor])
    /\ result' = [op |-> "AddTimeCallback"]
    /\ UNCHANGED <<mVoidCallbacks, Registers, TypeNames, mpSimulation, mMakers,
                   objects, mem, stored, said, lastSaid, alive>>

CallDoVoidCallbacks(aName) ==
    /\ alive
    /\ \E r \in {DoVoidCallbacks(mVoidCallbacks, aName)} :
           /\ Len(added) + Len(r.adds) <= MaxCallbacks
           /\ mVoidCallbacks' = r.m
           /\ added' = added \o r.adds
           /\ result' = [op |-> "DoVoidCallbacks", name |-> aName, arg |-> NoArg,
                         calls |-> r.calls, err |-> r.err]
    /\ UNCHANGED <<mTimeCallbacks, Registers, TypeNames, mpSimulation,
                   mMakers, objects, mem, stored, said, lastSaid, alive>>

CallDoTimeCallbacks(aName, arTime) ==
    /\ alive
    /\ \E r \in {DoTimeCallbacks(mTimeCallbacks, aName, arTime)} :
           /\ mTimeCallbacks' = r.m
           /\ result' = [op |-> "DoTimeCallbacks", name |-> aName, arg |-> arTime,
                         calls |-> r.calls, err |-> r.err]
    /\ UNCHANGED <<mVoidCallbacks, added, Registers, TypeNames, mpSimulation,
                   mMakers, objects, mem, stored, said, lastSaid, alive>>

NextCallbacks ==
    \/ \E apSim \in {TheSim} : DoSetSimulation(apSim)
    \/ DoSetVariable(TagBoolP, kFlag, pFlag, Indeterminate)
    \/ DoClear
    \/ \E n \in CallbackNames, f \in VoidFunctors : CallAddVoidCallback(n, f)
    \/ \E n \in CallbackNames, f \in TimeFunctors : CallAddTimeCallback(n, f)
    \/ \E n \in CallbackNames : CallDoVoidCallbacks(n)
    \/ \E n \in CallbackNames, t \in Times : CallDoTimeCallbacks(n, t)

SpecCallbacks == Init /\ [][NextCallbacks]_vars

\* callbacks that add a callback: the functors given are "A", which does
\* nothing to the register, and "R", which adds "B" to the collection it is
\* called for
AddingFunctors == {"A", "R"}

NextAdding ==
    \/ \E n \in CallbackNames, f \in AddingFunctors : CallAddVoidCallback(n, f)
    \/ \E n \in CallbackNames : CallDoVoidCallbacks(n)

SpecAdding == Init /\ [][NextAdding]_vars

\* ------------------------------------------------- loading an ini file

\* a group of an ini file
Group(classname, instancename, nvp) ==
    [classname |-> classname, instancename |-> instancename, nvp |-> nvp]

\* a group that describes no object
PlainGroup == Group(<<>>, <<>>, <<lA>>)

\* the ini files read, each the sequence of its groups
IniFiles ==
    { <<>>,
      <<PlainGroup>>,
      <<Group(<<"S">>, <<"b">>, <<lEOL>>), PlainGroup, Group(<<"C">>, <<"a">>, <<lCapacity>>)>>,
      <<Group(<<"C">>, <<"b">>, <<>>), Group(<<"S">>, <<"a">>, <<lSources, lEOL>>)>>,
      <<Group(<<"S">>, <<"a">>, <<lZ, lEOL>>), Group(<<"C">>, <<"b">>, <<>>)>>,
      <<Group(<<"S">>, <<"a">>, <<lEOL>>), Group(<<"X">>, <<"b">>, <<>>)>>,
      <<Group(<<"S">>, <<"a">>, <<lEOL>>)>> }

\* the number of groups of an ini file that describe an object
RECURSIVE ObjectGroups(_)
ObjectGroups(groups) ==
    IF groups = <<>> THEN 0
    ELSE (IF Head(groups).classname = <<>> THEN 0 ELSE 1) + ObjectGroups(Tail(groups))

DoMakeObjectsFromIniFile(groups, ub) ==
    /\ alive
    /\ Len(objects) + ObjectGroups(groups) <= MaxObjects
    /\ \E r \in {MakeObjectsFromIniFile(World, mMakers, mpSimulation, groups, ub)} :
           /\ Install(r.W)
           /\ alive' = (r.err.kind # "crash")
           /\ result' = [op |-> "MakeObjectsFromIniFile", groups |-> groups,
                         calls |-> r.calls, err |-> r.err]
    /\ UNCHANGED <<mVoidCallbacks, mTimeCallbacks, added, mpSimulation, mMakers>>

NextLoad ==
    \/ \E apSim \in {TheSim} : DoSetSimulation(apSim)
    \/ \E i \in 1..2 :
          /\ i = Cardinality(DOMAIN mMakers) + 1
          /\ DoAddMaker(MakerCalls[i][1], MakerCalls[i][2])
    \/ \E g \in IniFiles, ub \in UBChoices : DoMakeObjectsFromIniFile(g, ub)
    \/ \E regs \in ResetOrders(Registers) : DoReset(regs)

SpecLoad == Init /\ [][NextLoad]_vars

\* ------------------------------------------------------ register strings

\* the components given to the register string functions; none is empty or
\* holds a separator
Components == {<<"a">>, <<"b">>, <<"a", "b">>, <<"S">>, <<"f", "i", "l", "e">>}

DoRegisterString(aFirst, aSecond, aThird) ==
    /\ result' = [op |-> "RegisterString", args |-> <<aFirst, aSecond, aThird>>,
                  key |-> RegisterString(aFirst, aSecond, aThird)]
    /\ UNCHANGED <<Registers, TypeNames, mpSimulation, mMakers, mVoidCallbacks,
                   mTimeCallbacks, added, objects, mem, stored, said, lastSaid,
                   alive>>

\* FunctionRegisterString, CollectionRegisterString or FileRegisterString
DoPrefixedRegisterString(op, aName) ==
    /\ result' = [op |-> op, args |-> <<aName>>,
                  key |-> IF op = "FunctionRegisterString"
                          THEN FunctionRegisterString(aName)
                          ELSE IF op = "CollectionRegisterString"
                          THEN CollectionRegisterString(aName)
                          ELSE FileRegisterString(aName)]
    /\ UNCHANGED <<Registers, TypeNames, mpSimulation, mMakers, mVoidCallbacks,
                   mTimeCallbacks, added, objects, mem, stored, said, lastSaid,
                   alive>>

NextKeys ==
    \/ \E a \in Components, b, c \in Components \cup {<<>>} :
          DoRegisterString(a, b, c)
    \/ \E op \in {"FunctionRegisterString", "CollectionRegisterString",
                  "FileRegisterString"}, n \in Components :
          DoPrefixedRegisterString(op, n)

SpecKeys == Init /\ [][NextKeys]_vars

\* ------------------------------------------ interpolation in a point map

\* the largest key and the largest value of the point maps given
MaxKey == 4
MaxVal == 1

\* the map<int, double> values given: the maps from some of the keys
\* 1..MaxKey to the values 0..MaxVal
PointMaps == UNION {[S -> 0..MaxVal] : S \in SUBSET (1..MaxKey)}

\* CalcInterpolatedValue<KeyType, ValType>::Value for the points lo and hi
\* (<<key, value>> each): the quotient is kept exact, as numerator n over
\* denominator d
CalcInterpolatedValue_Value(lo, hi, arKey) ==
    [n |-> lo[2] * (hi[1] - lo[1]) + (hi[2] - lo[2]) * (arKey - lo[1]),
     d |-> hi[1] - lo[1]]

\* an interpolation that takes the nearest point's value for a key outside
\* the points
LinearInterp_Value_Clamped(arPoints, arKey) ==
    LET size   == Cardinality(DOMAIN arPoints)
        at(i)  == LET k == CHOOSE k \in DOMAIN arPoints :
                              Cardinality({j \in DOMAIN arPoints : j < k}) = i - 1
                  IN  <<k, arPoints[k]>>
        end    == size + 1
        lb     == IF \E i \in 1..size : at(i)[1] >= arKey
                  THEN CHOOSE i \in 1..size :
                          /\ at(i)[1] >= arKey
                          /\ \A j \in 1..(i - 1) : at(j)[1] < arKey
                  ELSE end
    IN  IF size <= 1
        THEN [err |-> [kind |-> "AtMostOnePoint"], val |-> Indeterminate]
        ELSE IF lb = end
        THEN [err |-> NoError, val |-> [n |-> at(size)[2], d |-> 1]]
        ELSE IF lb = 1
        THEN [err |-> NoError, val |-> [n |-> at(1)[2], d |-> 1]]
        ELSE IF at(lb)[1] = arKey
        THEN [err |-> NoError, val |-> [n |-> at(lb)[2], d |-> 1]]
        ELSE [err |-> NoError,
              val |-> CalcInterpolatedValue_Value(at(lb - 1), at(lb), arKey)]

\* LinearInterp<KeyType, ValType>::Value: iterators are positions 1..size in
\* the map's key order, end() is size + 1
LinearInterp_Value(arPoints, arKey) ==
    LET size   == Cardinality(DOMAIN arPoints)
        \* the i-th element of the map in key order
        at(i)  == LET k == CHOOSE k \in DOMAIN arPoints :
                              Cardinality({j \in DOMAIN arPoints : j < k}) = i - 1
                  IN  <<k, arPoints[k]>>
        end    == size + 1
        \* arPoints.lower_bound(arKey): the first element whose key is not
        \* less than arKey
        lb     == IF \E i \in 1..size : at(i)[1] >= arKey
                  THEN CHOOSE i \in 1..size :
                          /\ at(i)[1] >= arKey
                          /\ \A j \in 1..(i - 1) : at(j)[1] < arKey
                  ELSE end
        lowerIter == IF lb = end THEN size - 1
                     ELSE IF lb = 1 THEN 1
                     ELSE lb - 1
        upperIter == IF lb = end THEN size
                     ELSE IF lb = 1 THEN 2
                     ELSE lb
    IN  IF size <= 1
        THEN [err |-> [kind |-> "AtMostOnePoint"], val |-> Indeterminate]
        ELSE IF at(lowerIter)[1] = arKey
        THEN [err |-> NoError, val |-> [n |-> at(lowerIter)[2], d |-> 1]]
        ELSE IF at(upperIter)[1] = arKey
        THEN [err |-> NoError, val |-> [n |-> at(upperIter)[2], d |-> 1]]
        ELSE [err |-> NoError,
              val |-> CalcInterpolatedValue_Value(at(lowerIter), at(upperIter), arKey)]

\* LinearInterp<int, double>().Value(arPoints, arKey)
DoValue(arPoints, arKey) ==
    /\ alive
    /\ \E r \in {LinearInterp_Value(arPoints, arKey)} :
           result' = [op |-> "Value", points |-> arPoints, key |-> arKey,
                      err |-> r.err, val |-> r.val]
    /\ UNCHANGED <<mVoidCallbacks, mTimeCallbacks, added,
                   Registers, TypeNames, mpSimulation, mMakers, objects, mem,
                   stored, said, lastSaid, alive>>

NextInterp == \E m \in PointMaps, k \in 0..(MaxKey + 1) : DoValue(m, k)

SpecInterp == Init /\ [][NextInterp]_vars

\* ------------------------------------------------- vocabulary of the claims

\* the last call was Make, a maker was found and the process lived
MadeBy(res) == res.op = "Make" /\ res.thing # Null /\ res.err.kind # "crash"

\* the origin string the register routes aKey to: <<TRUE, s>>, or <<FALSE>>
Origin(Regs, Names, aKey) ==
    IF /\ aKey \in DOMAIN Names
       /\ ~IsNullRegister(Regs, Names[aKey])
       /\ aKey \in DOMAIN Regs[Names[aKey]].StringData
    THEN <<TRUE, Regs[Names[aKey]].StringData[aKey]>>
    ELSE <<FALSE>>

\* the member names of a document, in document order
DocNames(doc) == [i \in 1..Len(doc) |-> doc[i][1]]

\* q is the members of doc in ascending order of name
AscendingNamesOf(q, doc) ==
    /\ Len(q) = Len(doc)
    /\ {q[i] : i \in 1..Len(q)} = {doc[i][1] : i \in 1..Len(doc)}
    /\ \A i, j \in 1..Len(q) : i < j => StrLess(q[i], q[j])

DocValue(doc, name) == (CHOOSE i \in 1..Len(doc) : doc[i][1] = name)

IsPrefix(p, q) == Len(p) <= Len(q) /\ \A i \in 1..Len(p) : p[i] = q[i]

\* the objects a handle value can name
Handles == 1..Len(objects)

\* ------------------------------------------------------------------- C1
\* C1: after a Reset that returned, every instance-reference member holds the
\* handle of the instance its origin string names, and every collection member
\* holds the handles of the instances its list names, in list order -- also
\* when the instance named was made after the object that refers to it.
RefResolved(p, T, name) ==
    /\ mem[p] \in Handles
    /\ objects[mem[p]].type = T
    /\ objects[mem[p]].name = name
    /\ Registers[TagHandle(T)].Data[RegisterString(class_name[T], name, <<>>)] = mem[p]

VecResolved(v, T, names) ==
    /\ Len(mem[v]) = Len(names)
    /\ \A i \in 1..Len(names) :
          /\ mem[v][i] \in Handles
          /\ objects[mem[v][i]].type = T
          /\ objects[mem[v][i]].name = names[i]
          /\ Registers[TagHandle(T)].Data[RegisterString(class_name[T], names[i], <<>>)]
                = mem[v][i]

\* the instance names of the list literals the documents use
ListNames(s) ==
    IF s = lSources[2] THEN << <<"b">>, <<"a">> >> ELSE Tokenize(s, <<>>)

C1_ResetResolvesReferences ==
    (result.op = "Reset" /\ result.err.kind = "none") =>
        /\ TagRefP \in DOMAIN Registers =>
              \A k \in DOMAIN Registers[TagRefP].StringData :
                 RefResolved(Registers[TagRefP].Data[k], "Channel",
                             Registers[TagRefP].StringData[k])
        /\ TagVecP \in DOMAIN Registers =>
              \A k \in DOMAIN Registers[TagVecP].StringData :
                 VecResolved(Registers[TagVecP].Data[k], "Storage",
                             ListNames(Registers[TagVecP].StringData[k]))

\* a list of two was resolved in list order, its first element an instance
\* made after the object that holds the list
C1_Witness ==
    /\ result.op = "Reset" /\ result.err.kind = "none"
    /\ \E h \in Handles :
          /\ objects[h].type = "Storage"
          /\ Len(mem[<<h, "mSources">>]) = Len(ListNames(lSources[2]))
          /\ mem[<<h, "mSources">>][1] > h
          /\ objects[mem[<<h, "mSources">>][1]].name = <<"b">>
          /\ mem[<<h, "mSources">>][2] = h

\* ------------------------------------------------------------------- C2
\* what Get<T>(aKey) yields is what converting s to T yields
GetIsConverted(aKey, s) ==
    LET tag == TypeNames[aKey]
        v   == Registers[tag].Data[aKey]
    IN  IF tag \in HandleTags
        THEN LET f == FindInstance(World, TagClass(tag), s)
             IN  f.err.kind = "none" /\ v = f.val
        ELSE IF tag = TagDoubleP
        THEN lexical_cast_double(s).ok /\ mem[v] = lexical_cast_double(s).val
        ELSE IF tag = TagRefP
        THEN RefResolved(v, "Channel", s)
        ELSE VecResolved(v, "Storage", ListNames(s))

\* C2: for a key k present with a value of type T (a registered member of any
\* kind, or an instance handle stored under Class.Instance), SetString(k, s)
\* followed by Reset followed by Get(k) yields what converting s to T yields.
C2_ResetGivesConvertedString ==
    (result.op = "Reset" /\ result.err.kind = "none") =>
        \A k \in DOMAIN TypeNames :
           Origin(Registers, TypeNames, k)[1] =>
              GetIsConverted(k, Origin(Registers, TypeNames, k)[2])

\* ------------------------------------------------------------------- C3
\* C3 as stated (the register's simulation being set): Make applies the member strings in document order; when
\* member i fails, exactly the members before i (in document order) are
\* applied.
C3_AppliedInDocumentOrder ==
    (/\ mpSimulation = TheSim
     /\ MadeBy(result) /\ result.err.kind \in {"none", "MissingMember"}) =>
        /\ IsPrefix(result.applied, DocNames(result.doc))
        /\ result.err.kind = "MissingMember" =>
              DocNames(result.doc)[Len(result.applied) + 1] = result.err.member

\* C3 as amended: Make applies the member strings in ascending order of
\* member name, whatever their order in the document; when a member fails,
\* the members before it in that order have their strings stored, and no
\* member after it is applied: its origin string is what it was before the
\* call, or the default its class declares.
DefaultOf(T, name) == IF T = "Channel" /\ name = fCapacity THEN <<TRUE, <<"2">>>> ELSE <<FALSE>>

C3_AppliedInNameOrder ==
    [][ MadeBy(result') /\ result'.err.kind \in {"none", "MissingMember"} =>
          \E q \in [1..Len(result'.doc) -> {result'.doc[i][1] : i \in 1..Len(result'.doc)}] :
             /\ AscendingNamesOf(q, result'.doc)
             /\ IsPrefix(result'.applied, q)
             /\ result'.err.kind = "none" => result'.applied = q
             /\ result'.err.kind = "MissingMember" =>
                   /\ Len(result'.applied) < Len(q)
                   /\ q[Len(result'.applied) + 1] = result'.err.member
             /\ \A i \in 1..Len(q) :
                   LET key == RegisterString(result'.cls, result'.name, q[i])
                       doc == result'.doc
                   IN  IF i <= Len(result'.applied)
                       THEN Origin(Registers', TypeNames', key)
                               = <<TRUE, doc[DocValue(doc, q[i])][2]>>
                       ELSE Origin(Registers', TypeNames', key)
                               \in {Origin(Registers, TypeNames, key),
                                    DefaultOf(objects'[result'.thing].type, q[i])}
      ]_vars

\* a member was applied and a later one (in name order) failed, in a document
\* that lists the failing member first
C3_Witness ==
    /\ MadeBy(result) /\ result.err.kind = "MissingMember"
    /\ result.applied # <<>>
    /\ result.doc[1][1] = result.err.member

\* ------------------------------------------------------------------- C4
\* a member name is declared when the register has a type-index entry for it
Declared(cls, name, member) == RegisterString(cls, name, member) \in DOMAIN TypeNames

C5_UnknownClassChangesNothing ==
    [][ result'.op = "Make" =>
          /\ (result'.err.kind = "UnknownClass") <=> (result'.cls \notin DOMAIN mMakers)
          /\ result'.err.kind = "UnknownClass" =>
                /\ result'.err.cls = result'.cls
                /\ UNCHANGED <<Registers, TypeNames, objects, mem>>
                /\ ~HasKey(World, RegisterString(result'.cls, result'.name, <<>>))
      ]_vars

\* an unknown class was refused while the register held instances
C5_Witness ==
    /\ result.op = "Make" /\ result.err.kind = "UnknownClass"
    /\ objects # <<>>
    /\ result.doc # <<>>

\* ------------------------------------------------------------------- C6
\* what Make may do to values: members that existed keep their value, a stored
\* value changes only to the new object or to one of its members
ValuesKept(thing) ==
    /\ \A p \in DOMAIN mem : mem'[p] = mem[p]
    /\ \A p \in DOMAIN mem' \ DOMAIN mem :
          mem'[p] = NewObject(World, objects'[thing].type, objects'[thing].name).mem[p]
    /\ \A t \in DOMAIN Registers :
          /\ t \in DOMAIN Registers'
          /\ \A k \in DOMAIN Registers[t].Data :
                /\ k \in DOMAIN Registers'[t].Data
                /\ \/ Registers'[t].Data[k] = Registers[t].Data[k]
                   \/ IF t \in HandleTags
                      THEN Registers'[t].Data[k] = thing
                      ELSE Registers'[t].Data[k][1] = thing

\* the keys whose origin string differs between the two states
StringsChanged ==
    {tk \in UNION {{<<t, k>> : k \in DOMAIN Registers'[t].StringData} :
                      t \in DOMAIN Registers'} :
        \/ tk[1] \notin DOMAIN Registers
        \/ tk[2] \notin DOMAIN Registers[tk[1]].StringData
        \/ Registers[tk[1]].StringData[tk[2]] # Registers'[tk[1]].StringData[tk[2]]}

ListedKeys(res) ==
    {RegisterString(res.cls, res.name, res.doc[i][1]) : i \in 1..Len(res.doc)}

\* C6 as stated (the register's simulation being set): Make re-derives nothing, and only the origin strings of the
\* listed members change.
C6_OnlyListedStringsChange ==
    [][ (mpSimulation = TheSim /\ MadeBy(result')) =>
          /\ ValuesKept(result'.thing)
          /\ \A tk \in StringsChanged : tk[2] \in ListedKeys(result')
      ]_vars

\* C6 as amended: Make re-derives nothing; the origin strings that change are
\* those of the listed members and those of the members that the new object's
\* own registration declares with a default string.
C6_ListedOrDefaultStringsChange ==
    [][ MadeBy(result') =>
          /\ ValuesKept(result'.thing)
          /\ \A tk \in StringsChanged :
                \/ tk[2] \in ListedKeys(result')
                \/ \E f \in {fEOL, fSpillOutlet, fSources, fCapacity} :
                      LET T == objects'[result'.thing].type
                      IN  /\ tk[2] = RegisterString(class_name[T], result'.name, f)
                          /\ DefaultOf(T, f) =
                                <<TRUE, Registers'[tk[1]].StringData[tk[2]]>>
      ]_vars

\* Make returned in a state where an earlier Reset had derived values from
\* origin strings, and stored a listed string without deriving from it
C6_Witness ==
    /\ MadeBy(result) /\ result.err.kind = "none"
    /\ result.applied # <<>>
    /\ \E h \in Handles : h # result.thing /\ objects[h].type = "Storage"
                          /\ mem[<<h, "mEOL">>] # Indeterminate
    /\ objects[result.thing].type = "Storage"
    /\ mem[<<result.thing, "mEOL">>] = Indeterminate

\* ------------------------------------------------------------------- C7
\* C7 (the register's simulation being set): after a Make that returned, the key className.instanceName is present
\* and holds the newly constructed object, whose Register was called once.
C7_InstanceUnderGivenClassName ==
    (mpSimulation = TheSim /\ MadeBy(result) /\ result.err.kind = "none") =>
        LET key == RegisterString(result.cls, result.name, <<>>)
        IN  /\ HasKey(World, key)
            /\ Registers[TypeNames[key]].Data[key] = result.thing
            /\ Len(result.calls) = 1
            /\ result.calls[1].obj = result.thing

\* ------------------------------------------------------------------- C8
\* C8: SetInstance stores the handle before it calls the object's Register
\* (the hook finds the instance), the hook is given this register, and after
\* SetInstance returned FindInstance yields the handle.
C8_HookGetsTheRegister ==
    (result.op = "Make" /\ result.thing # Null) =>
        \A i \in 1..Len(result.calls) :
           /\ result.calls[i].found
           /\ result.calls[i].reg = "this"
           /\ alive =>
                 LET f == FindInstance(World, objects[result.thing].type,
                                       objects[result.thing].name)
                 IN  f.err.kind = "none" /\ f.val = result.thing

\* ------------------------------------------------------------------- C9
\* every key with a type name is held by the register of that type
KeysRouted ==
    \A k \in DOMAIN TypeNames :
       /\ TypeNames[k] \in DOMAIN Registers
       /\ k \in DOMAIN Registers[TypeNames[k]].Data

\* C9: each registered key maps to one type tag, whose store holds it;
\* Set<T>(k, v) succeeds whatever type k was stored under before, makes T the
\* type tag of k (creating the store of T if there was none) and touches no
\* other store; a later SetString(k) or GetString(k) works on the store of T
\* only.
C9_SetReplacesTypeTag ==
    /\ []KeysRouted
    /\ [][ /\ result'.op = "Set" =>
                /\ result'.err.kind = "none"
                /\ TypeNames' = Put(TypeNames, result'.key, result'.tag)
                /\ result'.tag \in DOMAIN Registers'
                /\ Registers'[result'.tag].Data[result'.key] = result'.val
                /\ \A t \in DOMAIN Registers \ {result'.tag} :
                      Registers'[t] = Registers[t]
           /\ (result'.op = "SetString" /\ result'.err.kind = "none") =>
                /\ result'.key \in DOMAIN TypeNames
                /\ TypeNames' = TypeNames
                /\ Registers'[TypeNames[result'.key]].StringData[result'.key]
                      = result'.str
                /\ \A t \in DOMAIN Registers \ {TypeNames[result'.key]} :
                      Registers'[t] = Registers[t]
           /\ (result'.op = "GetString" /\ result'.key \in DOMAIN TypeNames) =>
                LET reg == Registers[TypeNames[result'.key]]
                IN  IF result'.key \in DOMAIN reg.StringData
                    THEN /\ result'.err.kind = "none"
                         /\ result'.val = reg.StringData[result'.key]
                    ELSE result'.err.kind = "KeyNotFound"
      ]_vars

\* a key was stored under a second type while the store of its first type
\* held an origin string for it, and GetString then found no string
C9_Witness ==
    /\ result.op = "GetString" /\ result.err.kind = "KeyNotFound"
    /\ \E t \in DOMAIN Registers \ {TypeNames[result.key]} :
          /\ result.key \in DOMAIN Registers[t].Data
          /\ result.key \in DOMAIN Registers[t].StringData

\* ------------------------------------------------------------------ C10
\* a value of type tag was given to Set since the last Clear
EverStored(tag) == \E x \in DOMAIN stored : x[1] = tag

\* C10: Get<T>(k) throws TypeRegistryNotFound when no value of type T was
\* stored since the last Clear, KeyNotFound when values of type T were stored
\* but none under k, and otherwise returns the value last stored under k with
\* type T; a Get that throws changes nothing.
C10_TypedGet ==
    [][ result'.op = "Get" =>
          LET T == result'.tag
              k == result'.key
          IN  /\ UNCHANGED <<Registers, TypeNames, objects, mem, stored>>
              /\ IF ~EverStored(T)
                 THEN result'.err = TypeRegistryNotFound(T)
                 ELSE IF <<T, k>> \notin DOMAIN stored
                 THEN result'.err = KeyNotFound(k)
                 ELSE /\ result'.err.kind = "none"
                      /\ result'.val = stored[<<T, k>>]
      ]_vars

\* Get found no store for a type of which a value had been stored before the
\* register was cleared
C10_Witness ==
    /\ result.op = "Get" /\ result.err.kind = "TypeRegistryNotFound"
    /\ result.tag = TagHandle("Storage")
    /\ objects # <<>>

\* ------------------------------------------------------------------ C11
\* the exceptions the specification calls KeyNotFound: a key absent from the
\* register addressed, or a key without a type name
KeyNotFoundKinds == {"KeyNotFound", "NoTypeName"}

\* C11: GetString(k) and SetString(k, s) throw KeyNotFound when k has no
\* entry in TypeNames, and the call then leaves TypeNames, every register and
\* every origin string as they were.
C11_UntypedNeedsTypeName ==
    [][ (/\ result'.op \in {"SetString", "GetString"}
         /\ result'.key \notin DOMAIN TypeNames) =>
            /\ result'.err.kind \in KeyNotFoundKinds
            /\ result'.err.key = result'.key
            /\ UNCHANGED <<Registers, TypeNames, objects, mem>>
      ]_vars

\* SetString was refused for a key without type name while the register held
\* origin strings of other keys
C11_Witness ==
    /\ result.op = "SetString" /\ result.err.kind \in KeyNotFoundKinds
    /\ result.key \notin DOMAIN TypeNames
    /\ \E t \in DOMAIN Registers : DOMAIN Registers[t].StringData # {}

\* ------------------------------------------------------------------ C12
\* C12 as stated: GetString(k) returns the origin string most recently given
\* for k (by SetString, or by Set with a default), and throws KeyNotFound when
\* k is registered and no origin string was ever given for it.
C12_LatestStringOfKey ==
    [][ (result'.op = "GetString" /\ result'.key \in DOMAIN TypeNames) =>
          IF result'.key \in DOMAIN lastSaid
          THEN /\ result'.err.kind = "none"
               /\ result'.val = lastSaid[result'.key]
          ELSE result'.err.kind \in KeyNotFoundKinds
      ]_vars

\* C12 as amended: GetString(k) returns the origin string most recently given
\* for k while k had the type name it has now, and throws KeyNotFound when k
\* is registered and no origin string was given for it under that type name.
C12_LatestStringOfKeyAndType ==
    [][ (result'.op = "GetString" /\ result'.key \in DOMAIN TypeNames) =>
          IF <<TypeNames[result'.key], result'.key>> \in DOMAIN said
          THEN /\ result'.err.kind = "none"
               /\ result'.val = said[<<TypeNames[result'.key], result'.key>>]
          ELSE result'.err = KeyNotFound(result'.key)
      ]_vars

\* GetString found no string for a key that had been given one under the
\* type name it had before
C12_Witness ==
    /\ result.op = "GetString" /\ result.err.kind = "KeyNotFound"
    /\ result.key \in DOMAIN lastSaid
    /\ result.key \in DOMAIN TypeNames

\* ------------------------------------------------------------------ C13
\* the registers differ at most in what `part` ("Data" or "StringData") of the
\* register `tag` holds for aKey
OnlyChanged(part, tag, aKey) ==
    /\ DOMAIN Registers \subseteq DOMAIN Registers'
    /\ DOMAIN Registers' \subseteq DOMAIN Registers \cup {tag}
    /\ \A t \in DOMAIN Registers' :
          LET old == IF t \in DOMAIN Registers THEN Registers[t] ELSE NewRegister
          IN  \A f \in {"Data", "StringData"} :
                 \A k \in DOMAIN old[f] \cup DOMAIN Registers'[t][f] :
                    \/ (t = tag /\ f = part /\ k = aKey)
                    \/ /\ k \in DOMAIN old[f]
                       /\ k \in DOMAIN Registers'[t][f]
                       /\ Registers'[t][f][k] = old[f][k]

\* C13: SetString(k, s) changes only the origin string of k; Set(k, v) without
\* a default changes only the stored value and the type name of k and leaves
\* every origin string as it was; Set(k, v, d) does what Set(k, v) followed by
\* SetString(k, d) does.
C13_SetAndSetStringFrames ==
    [][ /\ (result'.op = "SetString" /\ result'.err.kind = "none") =>
             /\ OnlyChanged("StringData", TypeNames[result'.key], result'.key)
             /\ Registers'[TypeNames[result'.key]].StringData[result'.key]
                   = result'.str
             /\ UNCHANGED <<TypeNames, objects, mem>>
        /\ (result'.op = "Set" /\ ~result'.dflt[1]) =>
             /\ OnlyChanged("Data", result'.tag, result'.key)
             /\ Registers'[result'.tag].Data[result'.key] = result'.val
             /\ \A k \in DOMAIN TypeNames' \ {result'.key} :
                   k \in DOMAIN TypeNames /\ TypeNames'[k] = TypeNames[k]
             /\ UNCHANGED <<objects, mem>>
        /\ (result'.op = "Set" /\ result'.dflt[1]) =>
             LET W1 == ObjectRegister_Set(World, result'.tag, result'.key,
                                          result'.val, NoDefault)
                 W2 == ObjectRegister_SetString(W1, result'.key, result'.dflt[2])
             IN  /\ W2.err.kind = "none"
                 /\ Registers' = W2.W.Registers
                 /\ TypeNames' = W2.W.TypeNames
                 /\ mem' = W2.W.mem
                 /\ objects' = W2.W.objects
      ]_vars

\* Set without a default stored a new value under a key whose register held
\* an origin string for it
C13_Witness ==
    /\ result.op = "Set" /\ ~result.dflt[1]
    /\ result.key \in DOMAIN Registers[result.tag].StringData
    /\ \E t \in DOMAIN Registers \ {result.tag} : result.key \in DOMAIN Registers[t].Data

\* ------------------------------------------------------------------ C14
\* the instance-reference members that have an origin string: <<key, string>>
RefStrings ==
    IF TagRefP \in DOMAIN Registers
    THEN {<<k, Registers[TagRefP].StringData[k]>> :
             k \in DOMAIN Registers[TagRefP].StringData}
    ELSE {}

\* no instance of class T named aName was registered
NeverRegistered(T, aName) ==
    <<TagHandle(T), RegisterString(class_name[T], aName, <<>>)>> \notin DOMAIN stored

\* what re-deriving the reference member under key k from s does in this state
Rederive(k, s) == ResetFromString(World, TagRefP, Registers[TagRefP].Data[k], s)

\* C14 as stated: re-deriving an instance-reference member whose string names
\* an instance never registered under the referenced class throws KeyNotFound,
\* in every state, also when no instance of that class was registered at all.
C14_MissingInstanceIsKeyNotFound ==
    \A ks \in RefStrings :
       NeverRegistered("Channel", ks[2]) =>
          Rederive(ks[1], ks[2]).err.kind = "KeyNotFound"

\* C14 as amended: it throws KeyNotFound when instances of the referenced
\* class were registered but none under that name, and TypeRegistryNotFound
\* when no instance of the referenced class was registered at all; the member
\* keeps its value, and a Reset over such a member does not return.
C14_MissingInstanceThrows ==
    /\ \A ks \in RefStrings :
          NeverRegistered("Channel", ks[2]) =>
             /\ Rederive(ks[1], ks[2]).err =
                   IF EverStored(TagHandle("Channel"))
                   THEN KeyNotFound(RegisterString(class_name["Channel"], ks[2], <<>>))
                   ELSE TypeRegistryNotFound(TagHandle("Channel"))
             /\ Rederive(ks[1], ks[2]).W = World
    /\ (result.op = "Reset" /\ result.err.kind = "none") =>
          \A ks \in RefStrings : ~NeverRegistered("Channel", ks[2])

\* Reset met a reference to a Channel when no Channel had been registered
C14_Witness ==
    /\ result.op = "Reset"
    /\ result.err = TypeRegistryNotFound(TagHandle("Channel"))
    /\ \E ks \in RefStrings : NeverRegistered("Channel", ks[2])
    /\ ~EverStored(TagHandle("Channel"))

\* ------------------------------------------------------------------ C15
\* the keys of double* entries whose origin string is no literal of a double
BadLiterals ==
    IF TagDoubleP \in DOMAIN Registers
    THEN {k \in DOMAIN Registers[TagDoubleP].StringData :
             ~lexical_cast_double(Registers[TagDoubleP].StringData[k]).ok}
    ELSE {}

\* C15 as stated: when Reset meets an origin string that is no literal of the
\* member's type, it throws ConversionFailure, and the error identifies the
\* key of the member being re-derived.
C15_FailureNamesKey ==
    (result.op = "Reset" /\ result.err.kind = "ConversionFailure") =>
        result.err.value \in BadLiterals

\* C15 as amended: ... it throws ConversionFailure, and the error carries the
\* origin string that could not be converted, not the key; Reset returns
\* normally only when every such string is a literal.
C15_FailureNamesString ==
    [][ result'.op = "Reset" =>
          /\ result'.err.kind = "ConversionFailure" =>
                /\ DOMAIN result'.err = {"kind", "value"}
                /\ \E k \in BadLiterals :
                      result'.err.value = Registers[TagDoubleP].StringData[k]
          /\ result'.err.kind = "none" => BadLiterals = {}
      ]_vars

\* Reset threw ConversionFailure while two keys had the string it reports
C15_Witness ==
    /\ result.op = "Reset" /\ result.err.kind = "ConversionFailure"
    /\ \E k1, k2 \in BadLiterals :
          /\ k1 # k2
          /\ Registers[TagDoubleP].StringData[k1] = result.err.value
          /\ Registers[TagDoubleP].StringData[k2] = result.err.value

\* ------------------------------------------------------------------ C16
\* the pointer-to-member-function entries that have an origin string
FunctionStrings ==
    IF TagFunction \in DOMAIN Registers
    THEN {<<k, Registers[TagFunction].StringData[k]>> :
             k \in DOMAIN Registers[TagFunction].StringData}
    ELSE {}

\* C16: re-deriving a function-pointer entry that has an origin string
\* reports ResetUnsupported; Reset never returns normally over such an entry.
C16_FunctionEntryUnsupported ==
    (result.op = "Reset" /\ FunctionStrings # {}) =>
        /\ result.err.kind # "none"
        /\ \A ks \in FunctionStrings :
              ResetFromString(World, TagFunction,
                              Registers[TagFunction].Data[ks[1]], ks[2]).err.kind
                 = "ResetUnsupported"

\* ------------------------------------------------------------------ C17
\* s is the word w in some mix of upper and lower case
IsVariantOf(s, w) ==
    /\ Len(s) = Len(w)
    /\ \A i \in 1..Len(w) : s[i] \in {w[i], UpperOf[w[i]]}

\* what the boolean converter is to do with s
ExpectedBool(s) ==
    IF \E w \in TrueWords : IsVariantOf(s, w) THEN "true"
    ELSE IF \E w \in FalseWords : IsVariantOf(s, w) THEN "false"
    ELSE "failure"

\* the origin string of the bool entry, in a set (empty when it has none)
FlagStrings ==
    IF TagBoolP \in DOMAIN Registers /\ kFlag \in DOMAIN Registers[TagBoolP].StringData
    THEN {Registers[TagBoolP].StringData[kFlag]}
    ELSE {}

\* C17: the boolean converter gives true for every letter-case variant of
\* true, yes, y, false for every variant of false, no, n, and fails with
\* ConversionFailure, changing nothing, for every other string; a Reset over
\* the bool entry ends accordingly.
C17_BoolConverterTotal ==
    \A s \in FlagStrings :
        LET r == ResetFromString(World, TagBoolP, pFlag, s)
            e == ExpectedBool(s)
        IN  /\ e = "true" =>
                 r.err.kind = "none" /\ r.W = [World EXCEPT !.mem[pFlag] = Bool(TRUE)]
            /\ e = "false" =>
                 r.err.kind = "none" /\ r.W = [World EXCEPT !.mem[pFlag] = Bool(FALSE)]
            /\ e = "failure" => r.err.kind = "ConversionFailure" /\ r.W = World
            /\ result.op = "Reset" =>
                 /\ (result.err.kind = "ConversionFailure") = (e = "failure")
                 /\ (result.err.kind = "none") = (e # "failure")
                 /\ e = "true" => mem[pFlag] = Bool(TRUE)
                 /\ e = "false" => mem[pFlag] = Bool(FALSE)

\* a Reset made the bool false from a string that has an upper-case letter
C17_Witness ==
    /\ result.op = "Reset"
    /\ result.err.kind = "none"
    /\ FlagStrings = {<<"F", "a", "L", "s", "e">>}
    /\ mem[pFlag] = Bool(FALSE)

\* ------------------------------------------------------------------ C18
\* the doubles 1.5, 2 and 5
d1_5 == [m |-> 15, e |-> 1]
d2 == [m |-> 2, e |-> 0]
d5 == [m |-> 5, e |-> 0]

\* the collections that the well-formed list strings denote
ExpectedList ==
    (<<"[", "1", ".", "5", ",", " ", "2", "]">> :> <<d1_5, d2>>) @@
    (<<"[", "2", ",", "1", ".", "5", ",", "2", "]">> :> <<d2, d1_5, d2>>) @@
    (<<"[", "5", "]">> :> <<d5>>) @@
    (<<"[", "]">> :> <<>>)

\* the origin string of the vector entry, in a set (empty when it has none)
VectorStrings ==
    IF /\ TagVecDoubleP \in DOMAIN Registers
       /\ kVector \in DOMAIN Registers[TagVecDoubleP].StringData
    THEN {Registers[TagVecDoubleP].StringData[kVector]}
    ELSE {}

\* C18: re-deriving a vector from a well-formed list string leaves in it
\* exactly the converted elements of the list, in list order, whatever it
\* held before; the string "[]" leaves it empty.
C18_VectorReplaced ==
    \A s \in VectorStrings \cap DOMAIN ExpectedList :
        LET r == ResetFromString(World, TagVecDoubleP, pVector, s)
        IN  /\ r.err.kind = "none"
            /\ r.W = [World EXCEPT !.mem[pVector] = ExpectedList[s]]
            /\ result.op = "Reset" =>
                 result.err.kind = "none" /\ mem[pVector] = ExpectedList[s]

\* a Reset left the one element of "[5]" in the vector
C18_Witness ==
    /\ result.op = "Reset"
    /\ VectorStrings = {<<"[", "5", "]">>}
    /\ mem[pVector] = <<d5>>

\* ------------------------------------------------------------------ C19
\* the type of callback that an operation calls
CallbackTypeOf(op) == IF op = "DoVoidCallbacks" THEN "void" ELSE "time"

\* the calls due for the callbacks of `adds` of one type and name, in order
RECURSIVE CallsDue(_, _, _, _)
CallsDue(adds, type, aName, arg) ==
    IF adds = <<>> THEN <<>>
    ELSE (IF Head(adds).type = type /\ Head(adds).name = aName
          THEN <<[f |-> Head(adds).f, arg |-> arg]>> ELSE <<>>)
         \o CallsDue(Tail(adds), type, aName, arg)

\* C19: DoVoidCallbacks(name) and DoTimeCallbacks(name, t) call exactly the
\* callbacks added under that name with the Add function of the same type,
\* once for each time it was added, in the order in which they were added,
\* each with the argument of the call; no other callback is called.
C19_CalledInInsertionOrder ==
    result.op \in {"DoVoidCallbacks", "DoTimeCallbacks"} =>
        /\ result.err.kind = "none"
        /\ result.calls = CallsDue(added, CallbackTypeOf(result.op), result.name,
                                   result.arg)

\* B then A were added under "s" and a time callback in between; the void
\* callbacks of "s" were called: B, then A
C19_Witness ==
    /\ result.op = "DoVoidCallbacks"
    /\ result.name = <<"s">>
    /\ Len(added) = 3
    /\ added[2].type = "time" /\ added[2].name = <<"s">>
    /\ Len(result.calls) = 2
    /\ result.calls[1].f = "B"
    /\ result.calls[2].f = "A"

\* ------------------------------------------------------------------ C20
\* C20: a DoVoidCallbacks or DoTimeCallbacks for a name under which no
\* callback of that type was added throws nothing, calls nothing and leaves
\* both callback tables and everything else in the register as it was.
C20_NoCallbacksNoEffect ==
    [][(/\ result'.op \in {"DoVoidCallbacks", "DoTimeCallbacks"}
        /\ CallsDue(added, CallbackTypeOf(result'.op), result'.name, result'.arg) = <<>>)
       => /\ result'.err.kind = "none"
          /\ result'.calls = <<>>
          /\ UNCHANGED <<mVoidCallbacks, mTimeCallbacks, Registers, TypeNames,
                         mpSimulation, mMakers, objects, mem, alive>>]_vars

\* time callbacks were asked for under a name that only has a void callback,
\* while the register holds an entry
C20_Witness ==
    /\ result.op = "DoTimeCallbacks"
    /\ result.calls = <<>>
    /\ result.err.kind = "none"
    /\ \E i \in 1..Len(added) : added[i].type = "void" /\ added[i].name = result.name
    /\ \A i \in 1..Len(added) : ~(added[i].type = "time" /\ added[i].name = result.name)
    /\ Len(mTimeCallbacks) > 0
    /\ Registers # EmptyMap

\* ------------------------------------------------------------------ C21
\* the Make calls due for the groups, in the order of the groups
RECURSIVE MakesDue(_)
MakesDue(groups) ==
    IF groups = <<>> THEN <<>>
    ELSE (IF Head(groups).classname = <<>> THEN <<>>
          ELSE <<[call |-> "Make", cls |-> Head(groups).classname,
                  name |-> Head(groups).instancename]>>)
         \o MakesDue(Tail(groups))

\* the double members that have an origin string hold the value it denotes
DoublesDerived ==
    \A k \in DOMAIN TypeNames :
        (TypeNames[k] = TagDoubleP /\ Origin(Registers, TypeNames, k)[1]) =>
            LET c == lexical_cast_double(Origin(Registers, TypeNames, k)[2])
            IN  c.ok => mem[Registers[TagDoubleP].Data[k]] = c.val

\* the load returned with the register's simulation set
Loaded(res) ==
    res.op = "MakeObjectsFromIniFile" /\ res.err.kind = "none" /\ mpSimulation = TheSim

\* C21 as stated: a load calls Make once for each group that names a class,
\* in the order of the groups, and then Reset once, so that afterwards the
\* members hold the values their origin strings denote.
C21_LoadMakesThenResets ==
    Loaded(result) =>
        /\ result.calls = MakesDue(result.groups) \o <<[call |-> "Reset"]>>
        /\ DoublesDerived

\* C21 as amended: a load calls Make once for each group that names a class,
\* in the order of the groups, and never calls Reset: no member is derived
\* from its origin string by the load.
C21_LoadMakesOnly ==
    [][ Loaded(result') =>
          /\ result'.calls = MakesDue(result'.groups)
          /\ \A p \in DOMAIN mem : mem'[p] = mem[p]
          /\ \A p \in DOMAIN mem' \ DOMAIN mem :
                mem'[p] = IF p[2] = "mSources" THEN <<>>
                          ELSE IF p[2] = "mpSpillOutlet" THEN Null
                          ELSE Indeterminate
      ]_vars

\* a load made a Storage and then a Channel, passing over a group that
\* describes no object, and the Storage's EOL still has no value
C21_Witness ==
    /\ Loaded(result)
    /\ Len(result.groups) = 3
    /\ Len(result.calls) = 2
    /\ result.calls[1].cls = <<"S">>
    /\ result.calls[2].cls = <<"C">>
    /\ Origin(Registers, TypeNames, RegisterString(<<"S">>, <<"b">>, fEOL)) = <<TRUE, lEOL[2]>>
    /\ mem[<<1, "mEOL">>] = Indeterminate

\* ------------------------------------------------------------------ C22
\* C22: after a Reset that returned, a second Reset, the origin strings and
\* the instances being as they were, returns too and leaves every value and
\* the whole register as the first left them; a collection is not extended.
C22_ResetIdempotent ==
    (result.op = "Reset" /\ result.err.kind = "none") =>
        \A regs \in ResetOrders(Registers) :
            LET r == ObjectRegister_Reset(World, regs)
            IN  r.err.kind = "none" /\ r.W = World

\* a Reset returned that filled a collection with two instances and gave a
\* double its value
C22_Witness ==
    /\ result.op = "Reset"
    /\ result.err.kind = "none"
    /\ \E p \in DOMAIN mem : p[2] = "mSources" /\ Len(mem[p]) = 2
    /\ \E p \in DOMAIN mem : p[2] = "mEOL" /\ mem[p] # Indeterminate

\* ------------------------------------------------------------------ C23
\* C23 as stated: in every state, whatever the order in which Reset visits
\* the type registers, the members hold the same values afterwards.
C23_OrderNeverMatters ==
    \A o1, o2 \in ResetOrders(Registers) :
        ObjectRegister_Reset(World, o1).W.mem = ObjectRegister_Reset(World, o2).W.mem

\* C23 as amended: if Reset returns for one order of the type registers it
\* returns for every order, and all orders leave the same register and the
\* same member values.
C23_OrderOfReturnedReset ==
    \A o1, o2 \in ResetOrders(Registers) :
        LET r1 == ObjectRegister_Reset(World, o1)
            r2 == ObjectRegister_Reset(World, o2)
        IN  r1.err.kind = "none" => (r2.err.kind = "none" /\ r2.W = r1.W)

\* two type registers hold origin strings, and a Reset returns and gives a
\* member a new value
C23_Witness ==
    /\ Cardinality(ResetOrders(Registers)) >= 2
    /\ \E o \in ResetOrders(Registers) :
          /\ ObjectRegister_Reset(World, o).err.kind = "none"
          /\ ObjectRegister_Reset(World, o).W.mem # mem

\* ------------------------------------------------------------------ C24
\* the strings of q with a "." between one and the next
RECURSIVE Dotted(_)
Dotted(q) ==
    IF Len(q) = 1 THEN q[1] ELSE q[1] \o <<".">> \o Dotted(Tail(q))

\* the components given to a call: the arguments that are not empty
Given(args) == SelectSeq(args, LAMBDA x : x # <<>>)

\* every call of RegisterString with one, two or three components
KeyCalls ==
    {<<a>> : a \in Components}
    \cup {<<a, b>> : a, b \in Components}
    \cup {<<a, b, c>> : a, b, c \in Components}

\* RegisterString of the components q, the others left at their default ""
KeyOf(q) ==
    RegisterString(q[1], IF Len(q) >= 2 THEN q[2] ELSE <<>>,
                   IF Len(q) = 3 THEN q[3] ELSE <<>>)

\* C24 as stated: RegisterString gives the components it was given that are
\* not empty, joined by "."; the function, collection and file forms are
\* "function.", "collection." and "file." followed by the name; calls with
\* different components, none empty, give different keys.
C24_KeyIsDottedComponents ==
    /\ result.op = "RegisterString" => result.key = Dotted(Given(result.args))
    /\ result.op = "FunctionRegisterString" =>
          result.key = <<"f", "u", "n", "c", "t", "i", "o", "n", ".">> \o result.args[1]
    /\ result.op = "CollectionRegisterString" =>
          result.key = <<"c", "o", "l", "l", "e", "c", "t", "i", "o", "n", ".">>
                          \o result.args[1]
    /\ result.op = "FileRegisterString" =>
          result.key = <<"f", "i", "l", "e", ".">> \o result.args[1]
    /\ (result.op = "RegisterString" /\ Given(result.args) \in KeyCalls) =>
          \A q \in KeyCalls : KeyOf(q) = result.key => q = Given(result.args)

\* the leading arguments that RegisterString uses: the first; the second
\* unless it is empty; the third unless it or the second is empty
Used(args) ==
    IF args[2] = <<>> THEN <<args[1]>>
    ELSE IF args[3] = <<>> THEN <<args[1], args[2]>>
    ELSE args

\* C24 as amended: RegisterString gives the first component, then "." and the
\* second if that is not empty, then "." and the third if neither the second
\* nor the third is empty (a third component after an empty second is left
\* out); the three prefixed forms are as
\* stated; calls that give one, two or three components, none empty, give
\* different keys for different components.
C24_KeyIsDottedPrefix ==
    /\ result.op = "RegisterString" => result.key = Dotted(Used(result.args))
    /\ result.op = "FunctionRegisterString" =>
          result.key = <<"f", "u", "n", "c", "t", "i", "o", "n", ".">> \o result.args[1]
    /\ result.op = "CollectionRegisterString" =>
          result.key = <<"c", "o", "l", "l", "e", "c", "t", "i", "o", "n", ".">>
                          \o result.args[1]
    /\ result.op = "FileRegisterString" =>
          result.key = <<"f", "i", "l", "e", ".">> \o result.args[1]
    /\ (result.op = "RegisterString" /\ Used(result.args) \in KeyCalls) =>
          \A q \in KeyCalls : KeyOf(q) = result.key => q = Used(result.args)

\* a key of three components was made, the second of two characters
C24_Witness ==
    /\ result.op = "RegisterString"
    /\ result.args = << <<"S">>, <<"a", "b">>, <<"a">> >>
    /\ result.key = <<"S", ".", "a", "b", ".", "a">>

\* ------------------------------------------------------------------ C25
\* the keys asked for after a Clear: the callers' keys and the keys of the
\* instances and of their members
KeysAsked ==
    CallerKeys \cup
    {RegisterString(<<"S">>, n, f) :
        n \in InstanceNames, f \in {<<>>, fEOL, fSpillOutlet, fSources}}

\* C25: after Clear no key is present: HasKey is false, Get fails with
\* "no register for the type" for every type, GetString and SetString fail
\* with "key not found" and change nothing, a Reset returns and changes
\* nothing, and a Set makes the key the only key of the register, as it
\* would in a new register.
C25_ClearedIsEmpty ==
    result.op = "Clear" =>
        /\ \A k \in KeysAsked :
              /\ ~HasKey(World, k)
              /\ \A tag \in HandleTags \cup {TagDoubleP, TagRefP, TagVecP, TagBoolP} :
                    ObjectRegister_Get(World, tag, k).err.kind = "TypeRegistryNotFound"
              /\ ObjectRegister_GetString(World, k).err.kind \in KeyNotFoundKinds
              /\ ObjectRegister_GetString(World, k).W = World
              /\ \A str \in CallerStrings :
                    /\ ObjectRegister_SetString(World, k, str).err.kind \in KeyNotFoundKinds
                    /\ ObjectRegister_SetString(World, k, str).W = World
        /\ \A regs \in ResetOrders(Registers) :
              /\ ObjectRegister_Reset(World, regs).err.kind = "none"
              /\ ObjectRegister_Reset(World, regs).W = World
        /\ \A c \in SetCalls(objects) :
              LET W1 == ObjectRegister_Set(World, c[1], c[2], c[3], c[4])
              IN  /\ W1.TypeNames = (c[2] :> c[1])
                  /\ DOMAIN W1.Registers = {c[1]}
                  /\ W1.Registers[c[1]].Data = (c[2] :> c[3])
                  /\ ObjectRegister_Get(W1, c[1], c[2]).val = c[3]

\* the register was cleared after two instances had been registered
C25_Witness ==
    /\ result.op = "Clear"
    /\ Len(objects) = 2
    /\ Registers = EmptyMap

\* ------------------------------------------------------------------ C26
\* the string of the value under aKey is the string GetString returns;
\* parsing it again leaves the value under aKey as it is
ParsesBack(aKey) ==
    LET g == ObjectRegister_GetString(World, aKey)
    IN  g.err.kind = "none" =>
           LET r == ResetFromString(World, TypeNames[aKey],
                                    Registers[TypeNames[aKey]].Data[aKey], g.val)
           IN  r.err.kind = "none" /\ r.W = World

StringDue(res, f) ==
    IF \E i \in 1..Len(res.doc) : res.doc[i][1] = f
    THEN res.doc[DocValue(res.doc, f)][2]
    ELSE DefaultOf(objects[res.thing].type, f)[2]

C28_CallsThoseAtStart ==
    [][ result'.op = "DoVoidCallbacks" =>
           result'.calls = CallsDue(added, "void", result'.name, NoArg) ]_vars

\* ------------------------------------------------------------------ C29
\* the members that the Register method of a class declares
MembersOf(T) == IF T = "Storage" THEN {fEOL, fSpillOutlet, fSources} ELSE {fCapacity}

\* C29: when Make fails with MissingMember, the object it constructed stays
\* in the register: FindInstance finds it under its class and name, and every
\* key its Register method declared is still present.
C29_FailedMakeKeepsInstance ==
    (MadeBy(result) /\ result.err.kind = "MissingMember") =>
        LET T == objects[result.thing].type
            f == FindInstance(World, T, result.name)
        IN  /\ f.err.kind = "none"
            /\ f.val = result.thing
            /\ mpSimulation = TheSim =>
                  \A m \in MembersOf(T) :
                      /\ HasKey(World, RegisterString(class_name[T], result.name, m))
                      /\ ObjectRegister_Get(
                             World, TypeNames[RegisterString(class_name[T], result.name, m)],
                             RegisterString(class_name[T], result.name, m)).val[1]
                            = result.thing

\* a Make of a Storage failed at a member the class does not declare, after
\* a listed member had been given its string
C29_Witness ==
    /\ MadeBy(result)
    /\ result.err.kind = "MissingMember"
    /\ mpSimulation = TheSim
    /\ objects[result.thing].type = "Storage"
    /\ HasKey(World, RegisterString(<<"S">>, result.name, fEOL))

\* ------------------------------------------------------------------ C30
\* the <<type, key>> pairs that have an origin string, in the order in which
\* a Reset that visits the type registers in the order regs comes to them
RECURSIVE KeysVisited(_)
KeysVisited(regs) ==
    IF regs = <<>> THEN <<>>
    ELSE LET keys == KeysInOrder(DOMAIN Registers[Head(regs)].StringData)
         IN  [i \in 1..Len(keys) |-> <<Head(regs), keys[i]>>] \o KeysVisited(Tail(regs))

\* the variable that the pointer stored under tk points to
Target(tk) == Registers[tk[1]].Data[tk[2]]

\* the key tk re-derived by itself
DerivedAlone(tk) ==
    ResetFromString(World, tk[1], Target(tk), Registers[tk[1]].StringData[tk[2]])

\* C30: when Reset, visiting the type registers in any order, fails at a
\* key, the keys it came to before have their newly derived values, the keys
\* after it (in the same type register and in the later ones) have the values
\* they had, and the origin strings and the type names are as they were.
C30_FailedResetIsPartial ==
    \A regs \in ResetOrders(Registers) :
        LET r == ObjectRegister_Reset(World, regs)
            q == KeysVisited(regs)
        IN  r.err.kind \notin {"none", "crash"} =>
               /\ r.W.TypeNames = TypeNames
               /\ DOMAIN r.W.Registers = DOMAIN Registers
               /\ \A t \in DOMAIN Registers :
                     r.W.Registers[t].StringData = Registers[t].StringData
               /\ \E n \in 1..Len(q) :
                     /\ DerivedAlone(q[n]).err = r.err
                     /\ \A i \in 1..(n - 1) :
                           /\ DerivedAlone(q[i]).err.kind = "none"
                           /\ r.W.mem[Target(q[i])]
                                 = DerivedAlone(q[i]).W.mem[Target(q[i])]
                     /\ \A i \in (n + 1)..Len(q) :
                           r.W.mem[Target(q[i])] = mem[Target(q[i])]

\* a Reset failed at a key that names an instance not registered, after it
\* had given a double its value; a collection is empty
C30_Witness ==
    /\ result.op = "Reset"
    /\ result.err.kind \in {"KeyNotFound", "TypeRegistryNotFound"}
    /\ \E p \in DOMAIN mem : p[2] = "mEOL" /\ mem[p] # Indeterminate
    /\ \E p \in DOMAIN mem : p[2] = "mSources" /\ mem[p] = <<>>


\* ---------------------------------------------------------------------- C31

\* the tags of the fields that hold one number or text, one bool, one
\* reference to an instance
FieldTags == {TagDoubleP, TagBoolP, TagRefP}

\* the entries <<tag, key>> of those fields whose origin string does not
\* convert in the registry as it is
FailingFields ==
    {tk \in FieldTags \X {kFlag, <<"d">>, <<"r">>} :
        /\ tk[1] \in DOMAIN Registers
        /\ ~IsNullRegister(Registers, tk[1])
        /\ tk[2] \in DOMAIN Registers[tk[1]].StringData
        /\ tk[2] \in DOMAIN Registers[tk[1]].Data
        /\ Registers[tk[1]].Data[tk[2]] # NullPtr
        /\ ResetFromString(World, tk[1], Registers[tk[1]].Data[tk[2]],
                           Registers[tk[1]].StringData[tk[2]]).err.kind # "none"}

\* C31: a failed re-derivation of a numeric/text, bool or instance-reference
\* field leaves the field's value as it was: the failing conversion changes
\* nothing, and after a Reset in any order the field whose string does not
\* convert still holds the value it held before the Reset.
C31_FailedFieldKeepsValue ==
    \A tk \in FailingFields :
        /\ ResetFromString(World, tk[1], Target(tk),
                           Registers[tk[1]].StringData[tk[2]]).W = World
        /\ \A regs \in ResetOrders(Registers) :
               ObjectRegister_Reset(World, regs).W.mem[Target(tk)] = mem[Target(tk)]

\* a Reset has just failed while the bool, the double and the reference each
\* hold a derived value and an origin string that no longer converts
C31_Witness ==
    /\ result.op = "Reset"
    /\ result.err.kind \in {"ConversionFailure", "KeyNotFound"}
    /\ FailingFields = {<<TagBoolP, kFlag>>, <<TagDoubleP, <<"d">>>>, <<TagRefP, <<"r">>>>}
    /\ mem[pFlag] = Bool(TRUE)
    /\ mem[<<0, "d">>] = [m |-> 5, e |-> 0]
    /\ mem[<<0, "r">>] # Null


\* ---------------------------------------------------------------------- C32

\* the list strings with an element that does not convert, and the converted
\* elements before that element: "[2, b]" fails at element 1, "[b,2]" at
\* element 0
ConvertedBeforeFailure ==
    (<<"[", "2", ",", " ", "b", "]">> :> <<d2>>) @@
    (<<"[", "b", ",", "2", "]">> :> <<>>)

\* C32: when re-deriving a vector fails at element i of the list, the vector
\* holds exactly the converted elements 0..i-1 in order, whatever it held
\* before: the conversion does so in every state, and so has a Reset that
\* has just failed.
C32_FailedVectorHoldsPrefix ==
    \A s \in VectorStrings \cap DOMAIN ConvertedBeforeFailure :
        LET r == ResetFromString(World, TagVecDoubleP, pVector, s)
        IN  /\ r.err.kind = "ConversionFailure"
            /\ r.W = [World EXCEPT !.mem[pVector] = ConvertedBeforeFailure[s]]
            /\ result.op = "Reset" =>
                 /\ result.err.kind = "ConversionFailure"
                 /\ mem[pVector] = ConvertedBeforeFailure[s]

\* a Reset has just failed at the second element of "[2, b]" and left the
\* first in the vector
C32_Witness ==
    /\ result.op = "Reset"
    /\ result.err.kind = "ConversionFailure"
    /\ VectorStrings = {<<"[", "2", ",", " ", "b", "]">>}
    /\ mem[pVector] = <<d2>>


\* ---------------------------------------------------------------------- C33

\* the type register A holds a value for the key k
InStore(Regs, A, k) ==
    /\ ~IsNullRegister(Regs, A)
    /\ k \in DOMAIN Regs[A].Data

\* the origin string that the type register A holds for k, in a set
StringIn(Regs, A, k) ==
    IF k \in DOMAIN Regs[A].StringData THEN {Regs[A].StringData[k]} ELSE {}

\* C33: a key k held by the type register A and stored, now or before, under
\* another type keeps in A its value and its origin string through every
\* step that leaves it under the other type (Set under the other type,
\* SetString, GetString, Get, SetInstance, Reset): Get<A>(k) returns the old
\* value, SetString(k, s) leaves the old string, and a Reset that returns
\* has converted the old string, into the variable a stored double* points to.
C33_OldStoreKeepsKey ==
    [][ \A A \in {TagDoubleP, TagHandle("Storage")}, k \in CallerKeys :
          (/\ InStore(Registers, A, k)
           /\ k \in DOMAIN TypeNames'
           /\ TypeNames'[k] # A) =>
              /\ InStore(Registers', A, k)
              /\ Registers'[A].Data[k] = Registers[A].Data[k]
              /\ StringIn(Registers', A, k) = StringIn(Registers, A, k)
              /\ ObjectRegister_Get([World EXCEPT !.Registers = Registers'], A, k)
                    = [err |-> NoError, val |-> Registers[A].Data[k]]
              /\ (result'.op = "Reset" /\ result'.err.kind = "none") =>
                    \A s \in StringIn(Registers, A, k) :
                        LET r == ResetFromString(World, A, Registers[A].Data[k], s)
                        IN  /\ r.err.kind = "none"
                            /\ A = TagDoubleP =>
                                  mem'[Registers[A].Data[k]] = r.W.mem[Registers[A].Data[k]]
      ]_vars

\* the key "x", stored as a double* with the origin string "1.5" and then as
\* a handle, has been given the string "b": a Reset has just returned and
\* derived 1.5 for the double, and the double* register still has "1.5"
C33_Witness ==
    /\ result.op = "Reset"
    /\ result.err.kind = "none"
    /\ <<"x">> \in DOMAIN TypeNames
    /\ TypeNames[<<"x">>] = TagHandle("Storage")
    /\ InStore(Registers, TagDoubleP, <<"x">>)
    /\ StringIn(Registers, TagDoubleP, <<"x">>) = {<<"1", ".", "5">>}
    /\ StringIn(Registers, TagHandle("Storage"), <<"x">>) = {<<"b">>}
    /\ mem[Registers[TagDoubleP].Data[<<"x">>]] = d1_5


\* ---------------------------------------------------------------------- C34

\* aKey was stored by Set or SetInstance since the last Clear
Stored(W, aKey) == \E tk \in DOMAIN W.stored : tk[2] = aKey

\* C34: HasKey(k) is true exactly when k was stored since the last Clear;
\* HasKey(k) and GetType(k) leave the register as it is; and SetString(k) and
\* GetString(k) on a key that was never stored fail with KeyNotFound.
C34_QueriesAreReadOnly ==
    [][ /\ \A k \in {kFlag, <<"d">>} : HasKey(World, k)' <=> Stored(World, k)'
        /\ result'.op \in {"HasKey", "GetType"} =>
              UNCHANGED <<Registers, TypeNames, mem>>
        /\ (result'.op \in {"SetString", "GetString"} /\ ~Stored(World, result'.key)) =>
              result'.err.kind \in KeyNotFoundKinds
      ]_vars


\* ---------------------------------------------------------------------- C35

\* every type-index entry of W names a type register that exists and holds a
\* value for the key
TypeNamesHaveValues(W) ==
    \A k \in DOMAIN W.TypeNames :
        /\ ~IsNullRegister(W.Registers, W.TypeNames[k])
        /\ k \in DOMAIN W.Registers[W.TypeNames[k]].Data

\* in every type register of W each key with an origin string has a value
StringsHaveValues(W) ==
    \A t \in DOMAIN W.Registers :
        /\ ~IsNullRegister(W.Registers, t)
        /\ DOMAIN W.Registers[t].StringData \subseteq DOMAIN W.Registers[t].Data

\* C35: after any sequence of Set, SetInstance, SetString, GetString, Get,
\* Reset and Clear, and after a Make from any such state: every type-index
\* entry names a type register that exists and holds a value for the key, in
\* every type register each key with an origin string has a value, and so
\* no Reset converts into a null value.
C35_IndexAndStoresAgree ==
    /\ TypeNamesHaveValues(World)
    /\ StringsHaveValues(World)
    /\ \A regs \in ResetOrders(Registers) :
          ObjectRegister_Reset(World, regs).err.kind # "crash"
    /\ \A T \in Types, d \in {<<lEOL>>, <<lZ, lCapacity>>}, ub \in UBChoices :
          LET r == MakeObject(World, mpSimulation, T, class_name[T], <<"b">>,
                              DocToMap(d), ub)
          IN  /\ TypeNamesHaveValues(r.W)
              /\ StringsHaveValues(r.W)

\* a Reset has just returned in a register where the key "x" is in two type
\* registers, with an origin string in the one the type index no longer
\* names, and the members of an instance are registered
C35_Witness ==
    /\ result.op = "Reset"
    /\ result.err.kind = "none"
    /\ <<"x">> \in DOMAIN TypeNames
    /\ TypeNames[<<"x">>] = TagHandle("Storage")
    /\ InStore(Registers, TagDoubleP, <<"x">>)
    /\ StringIn(Registers, TagDoubleP, <<"x">>) # {}
    /\ Cardinality(DOMAIN TypeNames) >= 5


\* ---------------------------------------------------------------------- C36

\* C36: Clear removes the type registers and the type index and nothing
\* else: both callback collections, with their callbacks in their order, and
\* the pointer to the simulation are as before, and DoVoidCallbacks and
\* DoTimeCallbacks after the Clear call the callbacks added before it, in
\* the order in which they were added.
C36_ClearKeepsCallbacks ==
    [][ result'.op = "Clear" =>
          /\ Registers' = EmptyMap
          /\ TypeNames' = EmptyMap
          /\ mVoidCallbacks' = mVoidCallbacks
          /\ mTimeCallbacks' = mTimeCallbacks
          /\ mpSimulation' = mpSimulation
          /\ \A n \in CallbackNames :
                /\ DoVoidCallbacks(mVoidCallbacks', n).calls
                      = CallsDue(added, "void", n, NoArg)
                /\ \A t \in Times :
                      DoTimeCallbacks(mTimeCallbacks', n, t).calls
                         = CallsDue(added, "time", n, t)
      ]_vars

\* a Clear has just emptied a register that held the caller's bool, in a
\* register that has its simulation and callbacks of both types
C36_Witness ==
    /\ result.op = "Clear"
    /\ mpSimulation = TheSim
    /\ mVoidCallbacks # <<>>
    /\ mTimeCallbacks # <<>>
    /\ pFlag \in DOMAIN mem
    /\ Registers = EmptyMap


\* ---------------------------------------------------------------------- C37

\* lo and hi are the keys of the two points of pts that the claim names for
\* key: adjacent keys that bracket it, the first two keys when it is below
\* the first, the last two when it is above the last
Bracket(pts, key, lo, hi) ==
    /\ lo \in DOMAIN pts
    /\ hi \in DOMAIN pts
    /\ lo < hi
    /\ \A k \in DOMAIN pts : ~(lo < k /\ k < hi)
    /\ \/ lo < key /\ key < hi
       \/ key < lo /\ \A k \in DOMAIN pts : lo <= k
       \/ hi < key /\ \A k \in DOMAIN pts : k <= hi

\* C37: LinearInterp::Value over a map with integer keys fails when the map
\* has fewer than two points; returns the stored value when the key is the
\* key of a point; and otherwise returns
\* lo.value + (hi.value - lo.value) * (key - lo.key) / (hi.key - lo.key)
\* for the two adjacent points lo, hi that bracket the key, the first two
\* points for a key below the first, the last two for a key above the last.
C37_LinearInterpValue ==
    result.op = "Value" =>
        LET pts == result.points
            key == result.key
        IN  /\ (result.err.kind # "none") <=> (Cardinality(DOMAIN pts) < 2)
            /\ (result.err.kind = "none" /\ key \in DOMAIN pts) =>
                  result.val = [n |-> pts[key], d |-> 1]
            /\ (result.err.kind = "none" /\ key \notin DOMAIN pts) =>
                  /\ \E lo, hi \in DOMAIN pts : Bracket(pts, key, lo, hi)
                  /\ \A lo, hi \in DOMAIN pts :
                        Bracket(pts, key, lo, hi) =>
                           /\ result.val.d > 0
                           /\ (result.val.n - pts[lo] * result.val.d) * (hi - lo)
                                 = (pts[hi] - pts[lo]) * (key - lo) * result.val.d

\* Value extrapolated from the last two of three points, for a key above
\* the last, to a value that is no whole number
C37_Witness ==
    /\ result.op = "Value"
    /\ result.err.kind = "none"
    /\ Cardinality(DOMAIN result.points) = 3
    /\ \A k \in DOMAIN result.points : k < result.key
    /\ result.val.d > 1
    /\ result.val.n % result.val.d # 0

====
